---------------------------- MODULE Spec2Model ----------------------------
(***************************************************************************)
(* Voxel-world core of rust-minecraft-poc: chunk store, terrain generator, *)
(* sky-light propagation, chunk streaming and the remesh batch.            *)
(*                                                                         *)
(* Scaling.  The program uses CHUNK_SIZE = 16, MAX_LIGHT_LEVEL = 15,       *)
(* VIEW_DISTANCE = 10, a base elevation of 32 and a night level of 4.      *)
(* The model keeps every formula of the code in terms of these names and   *)
(* gives them small values, keeping MAX_LIGHT_LEVEL < 2 * CHUNK_SIZE (the  *)
(* relation between the light range and the flood-fill cap of the code).   *)
(* A chunk coordinate is <<x, y, z>>; a voxel array is a function on       *)
(* 0 .. CHUNK_SIZE^3 - 1 in the code's linearisation.  A chunk entity is   *)
(* identified with its coordinate.  Commands issued by a system are part   *)
(* of that system's action (Bevy applies them at the end of the schedule   *)
(* stage the system ran in, before any later stage reads them).            *)
(***************************************************************************)
EXTENDS Integers, Sequences, FiniteSets, TLC

VARIABLES
    player_chunk,       \* chunk coordinate of the camera (ChunkCoord::from_world_pos)
    scheduled,          \* coordinates whose generation task the worker pool runs in the horizon
    loaded_chunks,      \* ChunkManager.loaded_chunks (its key set)
    loading_chunks,     \* ChunkManager.loading_chunks
    tasks,              \* ChunkTask entities in spawn order, each with its future's progress
    chunks,             \* Chunk components of the spawned chunk entities: coord -> Chunk
    needs_remesh,       \* entities carrying NeedsRemesh
    sky_light_level,    \* SkyLightLevel.level
    chunk_sky_light,    \* ChunkSkyLight components: coord -> level
    meshes,             \* Mesh3d of each chunk entity: coord -> mesh or NoMesh
    edits,              \* number of block edits made so far
    sky_changes,        \* number of sky-level changes so far
    last_op,            \* the system that ran last: [op, coords it integrated, marked or remeshed, clean]
    probe               \* the chunk under test of the light-pass specifications

vars == <<player_chunk, scheduled, loaded_chunks, loading_chunks, tasks, chunks,
          needs_remesh, sky_light_level, chunk_sky_light, meshes, edits,
          sky_changes, last_op, probe>>

----------------------------------------------------------------------------
(* Program constants (scaled) and bounds                                   *)

CHUNK_SIZE == 2
MAX_LIGHT_LEVEL == 3
VIEW_DISTANCE == 1
VIEW_DISTANCE_VERTICAL == 1
BASE_HEIGHT == 3
MOONLIGHT_LEVEL == 1
WORLD_SEED == 42

AIR == 0
STONE_ID == 1
DIRT_ID == 2
GRASS_ID == 3
BEDROCK_ID == 4

\* Option::None of a chunk reference, and the mesh with no face (Option<Mesh>::None)
NoChunk == [none |-> TRUE]
NoMesh == {}

NVOX == CHUNK_SIZE * CHUNK_SIZE * CHUNK_SIZE
Voxels == 0 .. (NVOX - 1)
Axis == 0 .. (CHUNK_SIZE - 1)
Light == 0 .. MAX_LIGHT_LEVEL

Max(a, b) == IF a >= b THEN a ELSE b
Min(a, b) == IF a <= b THEN a ELSE b
Abs(a) == IF a < 0 THEN -a ELSE a

\* the element of a singleton; The({e : r \in {d}}) is e with r bound to the
\* value of d, a `let` binding whose right-hand side is computed once
The(S) == CHOOSE y \in S : TRUE

\* the running maximum "max_neighbor = max_neighbor.max(..)" over a set of levels
SetMax(S) == CHOOSE m \in S : \A o \in S : o <= m

----------------------------------------------------------------------------
(* ChunkCoord                                                              *)

ChunkCoordNew(x, y, z) == <<x, y, z>>

distance_squared(a, b) ==
    LET dx == a[1] - b[1]
        dy == a[2] - b[2]
        dz == a[3] - b[3]
    IN  dx * dx + dy * dy + dz * dz

\* the six face-adjacent coordinates, in the order the code lists them
neighbor_coords(c) ==
    << <<c[1] - 1, c[2], c[3]>>, <<c[1] + 1, c[2], c[3]>>,
       <<c[1], c[2] - 1, c[3]>>, <<c[1], c[2] + 1, c[3]>>,
       <<c[1], c[2], c[3] - 1>>, <<c[1], c[2], c[3] + 1>> >>

NeighborSet(c) == {neighbor_coords(c)[i] : i \in 1 .. 6}

----------------------------------------------------------------------------
(* Chunk store                                                             *)

\* faulty variant: the y stride is that of z
index_flat(x, y, z) == x + z * CHUNK_SIZE + y * CHUNK_SIZE

index(x, y, z) == x + z * CHUNK_SIZE + y * CHUNK_SIZE * CHUNK_SIZE

XOf(i) == i % CHUNK_SIZE
ZOf(i) == (i \div CHUNK_SIZE) % CHUNK_SIZE
YOf(i) == i \div (CHUNK_SIZE * CHUNK_SIZE)

InRange(x, y, z) ==
    /\ x >= 0 /\ x < CHUNK_SIZE
    /\ y >= 0 /\ y < CHUNK_SIZE
    /\ z >= 0 /\ z < CHUNK_SIZE

ChunkNew(coord) ==
    [coord |-> coord,
     blocks |-> [i \in Voxels |-> AIR],
     light_levels |-> [i \in Voxels |-> MAX_LIGHT_LEVEL]]

get_block(chunk, x, y, z) ==
    IF ~InRange(x, y, z) THEN AIR ELSE chunk.blocks[index(x, y, z)]

\* faulty variant: the write fills the column from the voxel down
set_block_column(chunk, x, y, z, block_id) ==
    IF InRange(x, y, z)
    THEN [chunk EXCEPT !.blocks =
             [i \in DOMAIN @ |->
                 IF XOf(i) = x /\ ZOf(i) = z /\ i <= index(x, y, z) THEN block_id ELSE @[i]]]
    ELSE chunk

set_block(chunk, x, y, z, block_id) ==
    IF InRange(x, y, z)
    THEN [chunk EXCEPT !.blocks[index(x, y, z)] = block_id]
    ELSE chunk

get_light(chunk, x, y, z) ==
    IF ~InRange(x, y, z) THEN MAX_LIGHT_LEVEL ELSE chunk.light_levels[index(x, y, z)]

\* faulty variant: the level is stored as given
set_light_raw(chunk, x, y, z, level) ==
    IF InRange(x, y, z)
    THEN [chunk EXCEPT !.light_levels[index(x, y, z)] = level]
    ELSE chunk

set_light(chunk, x, y, z, level) ==
    IF InRange(x, y, z)
    THEN [chunk EXCEPT !.light_levels[index(x, y, z)] = Min(level, MAX_LIGHT_LEVEL)]
    ELSE chunk

is_air(block_id) == block_id = AIR

----------------------------------------------------------------------------
(* Isolated / live-reference sky-light pass (world/chunk.rs)               *)

NeighborLightDataNone ==
    [neg_x |-> NoChunk, pos_x |-> NoChunk, neg_y |-> NoChunk,
     pos_y |-> NoChunk, neg_z |-> NoChunk, pos_z |-> NoChunk]

\* faulty variant: a missing neighbour reads as full light, like Chunk::get_light
\* out of range
get_light_or_neighbor_open(chunk, x, y, z, neighbors) ==
    IF InRange(x, y, z) THEN get_light(chunk, x, y, z)
    ELSE IF x < 0 /\ neighbors.neg_x # NoChunk
         THEN get_light(neighbors.neg_x, CHUNK_SIZE - 1, y, z)
    ELSE IF x >= CHUNK_SIZE /\ neighbors.pos_x # NoChunk
         THEN get_light(neighbors.pos_x, 0, y, z)
    ELSE IF y < 0 /\ neighbors.neg_y # NoChunk
         THEN get_light(neighbors.neg_y, x, CHUNK_SIZE - 1, z)
    ELSE IF y >= CHUNK_SIZE /\ neighbors.pos_y # NoChunk
         THEN get_light(neighbors.pos_y, x, 0, z)
    ELSE IF z < 0 /\ neighbors.neg_z # NoChunk
         THEN get_light(neighbors.neg_z, x, y, CHUNK_SIZE - 1)
    ELSE IF z >= CHUNK_SIZE /\ neighbors.pos_z # NoChunk
         THEN get_light(neighbors.pos_z, x, y, 0)
    ELSE MAX_LIGHT_LEVEL

get_light_or_neighbor(chunk, x, y, z, neighbors) ==
    IF InRange(x, y, z) THEN get_light(chunk, x, y, z)
    ELSE IF x < 0 /\ neighbors.neg_x # NoChunk
         THEN get_light(neighbors.neg_x, CHUNK_SIZE - 1, y, z)
    ELSE IF x >= CHUNK_SIZE /\ neighbors.pos_x # NoChunk
         THEN get_light(neighbors.pos_x, 0, y, z)
    ELSE IF y < 0 /\ neighbors.neg_y # NoChunk
         THEN get_light(neighbors.neg_y, x, CHUNK_SIZE - 1, z)
    ELSE IF y >= CHUNK_SIZE /\ neighbors.pos_y # NoChunk
         THEN get_light(neighbors.pos_y, x, 0, z)
    ELSE IF z < 0 /\ neighbors.neg_z # NoChunk
         THEN get_light(neighbors.neg_z, x, y, CHUNK_SIZE - 1)
    ELSE IF z >= CHUNK_SIZE /\ neighbors.pos_z # NoChunk
         THEN get_light(neighbors.pos_z, x, y, 0)
    ELSE 0

\* faulty variant: the voxel takes the propagated value whenever it differs
propagate_light_from_neighbors_ext_assign(chunk, x, y, z, neighbors) ==
    LET current_light == get_light(chunk, x, y, z)
        max_neighbor_light ==
            SetMax({0, get_light_or_neighbor(chunk, x - 1, y, z, neighbors),
                       get_light_or_neighbor(chunk, x + 1, y, z, neighbors),
                       get_light_or_neighbor(chunk, x, y - 1, z, neighbors),
                       get_light_or_neighbor(chunk, x, y + 1, z, neighbors),
                       get_light_or_neighbor(chunk, x, y, z - 1, neighbors),
                       get_light_or_neighbor(chunk, x, y, z + 1, neighbors)})
    IN  The({ IF propagated # current_light
              THEN [chunk |-> set_light(chunk, x, y, z, propagated), changed |-> TRUE]
              ELSE [chunk |-> chunk, changed |-> FALSE] :
              propagated \in {Max(max_neighbor_light - 1, 0)} })

\* one voxel of a sweep: [chunk, changed]
propagate_light_from_neighbors_ext(chunk, x, y, z, neighbors) ==
    LET current_light == get_light(chunk, x, y, z)
        max_neighbor_light ==
            SetMax({0, get_light_or_neighbor(chunk, x - 1, y, z, neighbors),
                       get_light_or_neighbor(chunk, x + 1, y, z, neighbors),
                       get_light_or_neighbor(chunk, x, y - 1, z, neighbors),
                       get_light_or_neighbor(chunk, x, y + 1, z, neighbors),
                       get_light_or_neighbor(chunk, x, y, z - 1, neighbors),
                       get_light_or_neighbor(chunk, x, y, z + 1, neighbors)})
    IN  The({ IF propagated > current_light
              THEN [chunk |-> set_light(chunk, x, y, z, propagated), changed |-> TRUE]
              ELSE [chunk |-> chunk, changed |-> FALSE] :
              propagated \in {Max(max_neighbor_light - 1, 0)} })

\* the loops "for y, for z, for x" visit the voxels in index order; a sweep from
\* voxel i in direction step (+1 forward, -1 backward) over the remaining voxels
RECURSIVE SweepLive(_, _, _, _, _)
SweepLive(chunk, neighbors, i, step, any_change) ==
    IF i < 0 \/ i >= NVOX THEN [chunk |-> chunk, changed |-> any_change]
    ELSE IF ~is_air(chunk.blocks[i])
         THEN SweepLive(chunk, neighbors, i + step, step, any_change)
         ELSE The({ SweepLive(r.chunk, neighbors, i + step, step, any_change \/ r.changed) :
                    r \in {propagate_light_from_neighbors_ext(chunk, XOf(i), YOf(i), ZOf(i),
                                                              neighbors)} })

\* the loop "for _iteration in 0..(CHUNK_SIZE * 2)": [chunk, quiet], quiet when
\* the loop left through "if !any_change { break; }"
RECURSIVE FloodLive(_, _, _)
FloodLive(chunk, neighbors, iteration) ==
    IF iteration >= CHUNK_SIZE * 2 THEN [chunk |-> chunk, quiet |-> FALSE]
    ELSE The({ IF ~b.changed THEN [chunk |-> b.chunk, quiet |-> TRUE]
               ELSE FloodLive(b.chunk, neighbors, iteration + 1) :
               b \in { SweepLive(f.chunk, neighbors, NVOX - 1, -1, f.changed) :
                       f \in {SweepLive(chunk, neighbors, 0, 1, FALSE)} } })

\* faulty variant: a non-air voxel starts the shadow but keeps its light
RECURSIVE SeedColumn_keep(_, _, _, _, _)
SeedColumn_keep(chunk, x, z, y, in_shadow) ==
    IF y < 0 THEN chunk
    ELSE IF is_air(get_block(chunk, x, y, z))
         THEN SeedColumn_keep(set_light(chunk, x, y, z,
                                        IF in_shadow THEN 0 ELSE MAX_LIGHT_LEVEL),
                              x, z, y - 1, in_shadow)
         ELSE SeedColumn_keep(chunk, x, z, y - 1, TRUE)

\* top-down seeding of one column, from y down to 0
RECURSIVE SeedColumn(_, _, _, _, _)
SeedColumn(chunk, x, z, y, in_shadow) ==
    IF y < 0 THEN chunk
    ELSE IF is_air(get_block(chunk, x, y, z))
         THEN SeedColumn(set_light(chunk, x, y, z, IF in_shadow THEN 0 ELSE MAX_LIGHT_LEVEL),
                         x, z, y - 1, in_shadow)
         ELSE SeedColumn(set_light(chunk, x, y, z, 0), x, z, y - 1, TRUE)

\* the shadow test of calculate_skylight_with_neighbors for column (x, z)
LiveColumnShadow(neighbors, x, z) ==
    /\ neighbors.pos_y # NoChunk
    /\ \/ get_light(neighbors.pos_y, x, 0, z) < MAX_LIGHT_LEVEL
       \/ ~is_air(get_block(neighbors.pos_y, x, 0, z))

\* columns are numbered k = x + z * CHUNK_SIZE ("for z, for x")
RECURSIVE SeedLive(_, _, _)
SeedLive(chunk, neighbors, k) ==
    IF k >= CHUNK_SIZE * CHUNK_SIZE THEN chunk
    ELSE LET x == k % CHUNK_SIZE
             z == k \div CHUNK_SIZE
         IN  SeedLive(SeedColumn(chunk, x, z, CHUNK_SIZE - 1, LiveColumnShadow(neighbors, x, z)),
                      neighbors, k + 1)

calculate_skylight_with_neighbors(chunk, neighbors) ==
    FloodLive(SeedLive(chunk, neighbors, 0), neighbors, 0).chunk

calculate_skylight(chunk) ==
    calculate_skylight_with_neighbors(chunk, NeighborLightDataNone)

----------------------------------------------------------------------------
(* Terrain generator (world/terrain.rs)                                    *)

\* Stand-in for the noise library: twice the value of octave o of the Simplex
\* noise at column (wx, wz), amplitude included (in halves of a block; the
\* first octave carries the largest amplitude).
SimplexTerm2(seed, o, wx, wz) ==
    (((seed + o * wx + 2 * wz) % 3) - 1) * (IF o = 1 THEN 3 ELSE 1)

\* twice the floating-point sum "32.0 + continental + regional + local + detail + micro"
HeightSum2(seed, wx, wz) ==
    2 * BASE_HEIGHT + SimplexTerm2(seed, 1, wx, wz) + SimplexTerm2(seed, 2, wx, wz)
      + SimplexTerm2(seed, 3, wx, wz) + SimplexTerm2(seed, 4, wx, wz)
      + SimplexTerm2(seed, 5, wx, wz)

\* "height as i32": the cast truncates toward zero
CastToI32(sum2) == IF sum2 >= 0 THEN sum2 \div 2 ELSE -((-sum2) \div 2)

get_terrain_height(seed, wx, wz) == CastToI32(HeightSum2(seed, wx, wz))

\* an if-chain that tries the surface before the bedrock layer
TerrainBlock_surface_first(world_y, terrain_height, grass_id, dirt_id, stone_id, bedrock_id) ==
    LET depth_from_surface == terrain_height - world_y
    IN  IF world_y < 0 THEN AIR
        ELSE IF world_y > terrain_height THEN AIR
        ELSE IF depth_from_surface = 0 THEN grass_id
        ELSE IF world_y = 0 THEN bedrock_id
        ELSE IF depth_from_surface <= 3 THEN dirt_id
        ELSE stone_id

\* the if-chain of generate_chunk for one voxel
TerrainBlock(world_y, terrain_height, grass_id, dirt_id, stone_id, bedrock_id) ==
    LET depth_from_surface == terrain_height - world_y
    IN  IF world_y < 0 THEN AIR
        ELSE IF world_y = 0 THEN bedrock_id
        ELSE IF world_y > terrain_height THEN AIR
        ELSE IF depth_from_surface = 0 THEN grass_id
        ELSE IF depth_from_surface <= 3 THEN dirt_id
        ELSE stone_id

\* the fill loops of generate_chunk: every voxel is written once by set_block
GenerateBlocks(coord, seed, grass_id, dirt_id, stone_id, bedrock_id) ==
    [ChunkNew(coord) EXCEPT !.blocks =
        [i \in Voxels |->
            TerrainBlock(coord[2] * CHUNK_SIZE + YOf(i),
                         get_terrain_height(seed, coord[1] * CHUNK_SIZE + XOf(i),
                                            coord[3] * CHUNK_SIZE + ZOf(i)),
                         grass_id, dirt_id, stone_id, bedrock_id)]]

----------------------------------------------------------------------------
(* Mesh builder (world/mesh_gen.rs), reduced to the faces it emits and     *)
(* the light level each face is drawn with                                 *)

Dirs == << <<0, 1, 0>>, <<0, -1, 0>>, <<0, 0, 1>>, <<0, 0, -1>>, <<1, 0, 0>>, <<-1, 0, 0>> >>

NeighborChunksNone ==
    [neg_x |-> NoChunk, pos_x |-> NoChunk, neg_y |-> NoChunk,
     pos_y |-> NoChunk, neg_z |-> NoChunk, pos_z |-> NoChunk]

\* a builder that culls every face on the chunk boundary
should_render_face_inside(chunk, neighbors, x, y, z, dx, dy, dz) ==
    InRange(x + dx, y + dy, z + dz) /\ is_air(get_block(chunk, x + dx, y + dy, z + dz))

should_render_face_with_neighbors(chunk, neighbors, x, y, z, dx, dy, dz) ==
    LET nx == x + dx
        ny == y + dy
        nz == z + dz
    IN  IF InRange(nx, ny, nz) THEN is_air(get_block(chunk, nx, ny, nz))
        ELSE IF nx < 0
             THEN (IF neighbors.neg_x # NoChunk
                   THEN is_air(get_block(neighbors.neg_x, CHUNK_SIZE - 1, y, z)) ELSE TRUE)
        ELSE IF nx >= CHUNK_SIZE
             THEN (IF neighbors.pos_x # NoChunk
                   THEN is_air(get_block(neighbors.pos_x, 0, y, z)) ELSE TRUE)
        ELSE IF ny < 0
             THEN (IF neighbors.neg_y # NoChunk
                   THEN is_air(get_block(neighbors.neg_y, x, CHUNK_SIZE - 1, z)) ELSE TRUE)
        ELSE IF ny >= CHUNK_SIZE
             THEN (IF neighbors.pos_y # NoChunk
                   THEN is_air(get_block(neighbors.pos_y, x, 0, z)) ELSE TRUE)
        ELSE IF nz < 0
             THEN (IF neighbors.neg_z # NoChunk
                   THEN is_air(get_block(neighbors.neg_z, x, y, CHUNK_SIZE - 1)) ELSE TRUE)
        ELSE IF nz >= CHUNK_SIZE
             THEN (IF neighbors.pos_z # NoChunk
                   THEN is_air(get_block(neighbors.pos_z, x, y, 0)) ELSE TRUE)
        ELSE TRUE

get_light_at(chunk, neighbors, x, y, z) ==
    IF InRange(x, y, z) THEN get_light(chunk, x, y, z)
    ELSE IF y >= CHUNK_SIZE
         THEN (IF neighbors.pos_y # NoChunk /\ x >= 0 /\ x < CHUNK_SIZE /\ z >= 0 /\ z < CHUNK_SIZE
               THEN get_light(neighbors.pos_y, x, 0, z) ELSE MAX_LIGHT_LEVEL)
    ELSE IF y < 0
         THEN (IF neighbors.neg_y # NoChunk /\ x >= 0 /\ x < CHUNK_SIZE /\ z >= 0 /\ z < CHUNK_SIZE
               THEN get_light(neighbors.neg_y, x, CHUNK_SIZE - 1, z) ELSE 0)
    ELSE IF x < 0
         THEN (IF neighbors.neg_x # NoChunk /\ z >= 0 /\ z < CHUNK_SIZE
               THEN get_light(neighbors.neg_x, CHUNK_SIZE - 1, y, z) ELSE MAX_LIGHT_LEVEL)
    ELSE IF x >= CHUNK_SIZE
         THEN (IF neighbors.pos_x # NoChunk /\ z >= 0 /\ z < CHUNK_SIZE
               THEN get_light(neighbors.pos_x, 0, y, z) ELSE MAX_LIGHT_LEVEL)
    ELSE IF z < 0
         THEN (IF neighbors.neg_z # NoChunk
               THEN get_light(neighbors.neg_z, x, y, CHUNK_SIZE - 1) ELSE MAX_LIGHT_LEVEL)
    ELSE IF z >= CHUNK_SIZE
         THEN (IF neighbors.pos_z # NoChunk
               THEN get_light(neighbors.pos_z, x, y, 0) ELSE MAX_LIGHT_LEVEL)
    ELSE MAX_LIGHT_LEVEL

\* the clamp of light_to_brightness: "light.min(sky_light_level)"
effective_light(light, sky) == Min(light, sky)

\* the set of emitted faces; the builder returns None exactly when it is empty
create_chunk_mesh_with_sky_light(chunk, neighbors, sky) ==
          { [voxel |-> i, dir |-> Dirs[d],
              light |-> effective_light(
                  get_light_at(chunk, neighbors, XOf(i) + Dirs[d][1], YOf(i) + Dirs[d][2],
                               ZOf(i) + Dirs[d][3]), sky)] :
             <<i, d>> \in { <<j, e>> \in Voxels \X (1 .. 6) :
                 /\ ~is_air(chunk.blocks[j])
                 /\ should_render_face_with_neighbors(chunk, neighbors, XOf(j), YOf(j), ZOf(j),
                                                      Dirs[e][1], Dirs[e][2], Dirs[e][3]) } }

create_chunk_mesh(chunk) ==
    create_chunk_mesh_with_sky_light(chunk, NeighborChunksNone, MAX_LIGHT_LEVEL)

\* generate_chunk as the worker task runs it: fill, then light, then mesh
generate_chunk(coord, seed, grass_id, dirt_id, stone_id, bedrock_id) ==
    The({ [coord |-> coord, chunk |-> lit, mesh |-> create_chunk_mesh(lit)] :
          lit \in {calculate_skylight(
                      GenerateBlocks(coord, seed, grass_id, dirt_id, stone_id, bedrock_id))} })

----------------------------------------------------------------------------
(* Snapshot-based light passes and mesh (systems/block_interaction.rs)     *)

MAX_CHUNKS_PER_FRAME == 3
LIGHT_PROPAGATION_PASSES == 2     \* light passes of a batch (4 in the source)
SHADOW_TRACE_CHUNKS == 8

CachedLightData_from_chunk(chunk) ==
    [light_levels |-> chunk.light_levels, blocks |-> chunk.blocks]

cached_get_light(c, x, y, z) ==
    IF ~InRange(x, y, z) THEN MAX_LIGHT_LEVEL ELSE c.light_levels[index(x, y, z)]

cached_get_block(c, x, y, z) ==
    IF ~InRange(x, y, z) THEN AIR ELSE c.blocks[index(x, y, z)]

\* the closure get_cached_light of propagate_light_from_cache
get_cached_light(cache, neighbor_coord, x, y, z) ==
    IF neighbor_coord \in DOMAIN cache
    THEN cached_get_light(cache[neighbor_coord], x, y, z)
    ELSE 0

\* one voxel of a sweep of propagate_light_from_cache: [chunk, changed]
PropagateVoxelFromCache(chunk, coord, cache, x, y, z) ==
    LET current_light == get_light(chunk, x, y, z)
        L == CHUNK_SIZE - 1
        inner == { get_light(chunk, x - 1, y, z) : k \in {1} \cap (IF x > 0 THEN {1} ELSE {}) }
                 \cup { get_light(chunk, x + 1, y, z) : k \in {1} \cap (IF x < L THEN {1} ELSE {}) }
                 \cup { get_light(chunk, x, y - 1, z) : k \in {1} \cap (IF y > 0 THEN {1} ELSE {}) }
                 \cup { get_light(chunk, x, y + 1, z) : k \in {1} \cap (IF y < L THEN {1} ELSE {}) }
                 \cup { get_light(chunk, x, y, z - 1) : k \in {1} \cap (IF z > 0 THEN {1} ELSE {}) }
                 \cup { get_light(chunk, x, y, z + 1) : k \in {1} \cap (IF z < L THEN {1} ELSE {}) }
        outer == { get_cached_light(cache, <<coord[1] - 1, coord[2], coord[3]>>, L, y, z) :
                       k \in {1} \cap (IF x = 0 THEN {1} ELSE {}) }
                 \cup { get_cached_light(cache, <<coord[1] + 1, coord[2], coord[3]>>, 0, y, z) :
                       k \in {1} \cap (IF x = L THEN {1} ELSE {}) }
                 \cup { get_cached_light(cache, <<coord[1], coord[2] - 1, coord[3]>>, x, L, z) :
                       k \in {1} \cap (IF y = 0 THEN {1} ELSE {}) }
                 \cup { get_cached_light(cache, <<coord[1], coord[2] + 1, coord[3]>>, x, 0, z) :
                       k \in {1} \cap (IF y = L THEN {1} ELSE {}) }
                 \cup { get_cached_light(cache, <<coord[1], coord[2], coord[3] - 1>>, x, y, L) :
                       k \in {1} \cap (IF z = 0 THEN {1} ELSE {}) }
                 \cup { get_cached_light(cache, <<coord[1], coord[2], coord[3] + 1>>, x, y, 0) :
                       k \in {1} \cap (IF z = L THEN {1} ELSE {}) }
        max_neighbor == SetMax(inner \cup outer \cup {0})
    IN  The({ IF propagated > current_light
              THEN [chunk |-> set_light(chunk, x, y, z, propagated), changed |-> TRUE]
              ELSE [chunk |-> chunk, changed |-> FALSE] :
              propagated \in {Max(max_neighbor - 1, 0)} })

RECURSIVE SweepCache(_, _, _, _, _, _)
SweepCache(chunk, coord, cache, i, step, any_change) ==
    IF i < 0 \/ i >= NVOX THEN [chunk |-> chunk, changed |-> any_change]
    ELSE IF ~is_air(chunk.blocks[i])
         THEN SweepCache(chunk, coord, cache, i + step, step, any_change)
         ELSE The({ SweepCache(r.chunk, coord, cache, i + step, step, any_change \/ r.changed) :
                    r \in {PropagateVoxelFromCache(chunk, coord, cache, XOf(i), YOf(i), ZOf(i))} })

RECURSIVE FloodCache(_, _, _, _)
FloodCache(chunk, coord, cache, iteration) ==
    IF iteration >= CHUNK_SIZE * 2 THEN [chunk |-> chunk, quiet |-> FALSE]
    ELSE The({ IF ~b.changed THEN [chunk |-> b.chunk, quiet |-> TRUE]
               ELSE FloodCache(b.chunk, coord, cache, iteration + 1) :
               b \in { SweepCache(f.chunk, coord, cache, NVOX - 1, -1, f.changed) :
                       f \in {SweepCache(chunk, coord, cache, 0, 1, FALSE)} } })

propagate_light_from_cache(chunk, coord, cache) == FloodCache(chunk, coord, cache, 0).chunk

\* trace upward from check_coord through at most `left` cached chunks
RECURSIVE ShadowTrace(_, _, _, _, _)
ShadowTrace(x, z, check_coord, cache, left) ==
    IF left = 0 THEN FALSE
    ELSE IF check_coord \notin DOMAIN cache THEN FALSE
    ELSE IF \E y \in Axis : ~is_air(cached_get_block(cache[check_coord], x, y, z)) THEN TRUE
    ELSE ShadowTrace(x, z, <<check_coord[1], check_coord[2] + 1, check_coord[3]>>, cache, left - 1)

\* faulty variant: a column whose chunk above is not in the snapshot counts as shadowed
is_column_shadowed_closed(x, z, chunk_coord, cache) ==
    \/ <<chunk_coord[1], chunk_coord[2] + 1, chunk_coord[3]>> \notin DOMAIN cache
    \/ ShadowTrace(x, z, <<chunk_coord[1], chunk_coord[2] + 1, chunk_coord[3]>>, cache,
                   SHADOW_TRACE_CHUNKS)

\* faulty variant: a block in any snapshotted chunk of the trace shadows the
\* column, chunks missing below it or not
is_column_shadowed_any(x, z, chunk_coord, cache) ==
    \E dy \in 1 .. SHADOW_TRACE_CHUNKS :
        /\ <<chunk_coord[1], chunk_coord[2] + dy, chunk_coord[3]>> \in DOMAIN cache
        /\ \E y \in Axis :
              ~is_air(cached_get_block(
                          cache[<<chunk_coord[1], chunk_coord[2] + dy, chunk_coord[3]>>],
                          x, y, z))

is_column_shadowed(x, z, chunk_coord, cache) ==
    ShadowTrace(x, z, <<chunk_coord[1], chunk_coord[2] + 1, chunk_coord[3]>>, cache,
                SHADOW_TRACE_CHUNKS)

RECURSIVE SeedCache(_, _, _, _)
SeedCache(chunk, coord, cache, k) ==
    IF k >= CHUNK_SIZE * CHUNK_SIZE THEN chunk
    ELSE LET x == k % CHUNK_SIZE
             z == k \div CHUNK_SIZE
         IN  SeedCache(SeedColumn(chunk, x, z, CHUNK_SIZE - 1,
                                  is_column_shadowed(x, z, coord, cache)),
                       coord, cache, k + 1)

calculate_skylight_with_cache(chunk, coord, cache) ==
    propagate_light_from_cache(SeedCache(chunk, coord, cache, 0), coord, cache)

\* closures of create_chunk_mesh_with_cache
\* a block getter for which a neighbour missing from the cache is solid
get_neighbor_block_solid(cache, chunk_coord, dx, dy, dz, x, y, z) ==
    LET nc == <<chunk_coord[1] + dx, chunk_coord[2] + dy, chunk_coord[3] + dz>>
    IN  IF nc \in DOMAIN cache THEN cached_get_block(cache[nc], x, y, z) ELSE STONE_ID

get_neighbor_block(cache, chunk_coord, dx, dy, dz, x, y, z) ==
    LET nc == <<chunk_coord[1] + dx, chunk_coord[2] + dy, chunk_coord[3] + dz>>
    IN  IF nc \in DOMAIN cache THEN cached_get_block(cache[nc], x, y, z) ELSE AIR

get_neighbor_light(cache, chunk_coord, dx, dy, dz, x, y, z) ==
    LET nc == <<chunk_coord[1] + dx, chunk_coord[2] + dy, chunk_coord[3] + dz>>
    IN  IF nc \in DOMAIN cache THEN cached_get_light(cache[nc], x, y, z) ELSE 0

Clamp(v, lo, hi) == IF v < lo THEN lo ELSE IF v > hi THEN hi ELSE v

\* closure should_render_face of create_chunk_mesh_with_cached_neighbors
cached_should_render_face(chunk, cache, cc, x, y, z, dx, dy, dz) ==
    LET nx == x + dx
        ny == y + dy
        nz == z + dz
        L == CHUNK_SIZE - 1
    IN  IF InRange(nx, ny, nz) THEN is_air(get_block(chunk, nx, ny, nz))
        ELSE IF nx < 0 THEN is_air(get_neighbor_block(cache, cc, -1, 0, 0, L, y, z))
        ELSE IF nx >= CHUNK_SIZE THEN is_air(get_neighbor_block(cache, cc, 1, 0, 0, 0, y, z))
        ELSE IF ny < 0 THEN is_air(get_neighbor_block(cache, cc, 0, -1, 0, x, L, z))
        ELSE IF ny >= CHUNK_SIZE THEN is_air(get_neighbor_block(cache, cc, 0, 1, 0, x, 0, z))
        ELSE IF nz < 0 THEN is_air(get_neighbor_block(cache, cc, 0, 0, -1, x, y, L))
        ELSE IF nz >= CHUNK_SIZE THEN is_air(get_neighbor_block(cache, cc, 0, 0, 1, x, y, 0))
        ELSE TRUE

\* closure get_light of create_chunk_mesh_with_cached_neighbors
cached_get_light_at(chunk, cache, cc, x, y, z) ==
    LET L == CHUNK_SIZE - 1
    IN  IF InRange(x, y, z) THEN get_light(chunk, x, y, z)
        ELSE IF y >= CHUNK_SIZE
             THEN get_neighbor_light(cache, cc, 0, 1, 0, Clamp(x, 0, L), 0, Clamp(z, 0, L))
        ELSE IF y < 0
             THEN get_neighbor_light(cache, cc, 0, -1, 0, Clamp(x, 0, L), L, Clamp(z, 0, L))
        ELSE IF x < 0 THEN get_neighbor_light(cache, cc, -1, 0, 0, L, y, Clamp(z, 0, L))
        ELSE IF x >= CHUNK_SIZE THEN get_neighbor_light(cache, cc, 1, 0, 0, 0, y, Clamp(z, 0, L))
        ELSE IF z < 0 THEN get_neighbor_light(cache, cc, 0, 0, -1, x, y, L)
        ELSE IF z >= CHUNK_SIZE THEN get_neighbor_light(cache, cc, 0, 0, 1, x, y, 0)
        ELSE 0

create_chunk_mesh_with_cache(chunk, chunk_coord, cache, sky) ==
    { [voxel |-> i, dir |-> Dirs[d],
       light |-> effective_light(
           cached_get_light_at(chunk, cache, chunk_coord, XOf(i) + Dirs[d][1],
                               YOf(i) + Dirs[d][2], ZOf(i) + Dirs[d][3]), sky)] :
      <<i, d>> \in { <<j, e>> \in Voxels \X (1 .. 6) :
          /\ ~is_air(chunk.blocks[j])
          /\ cached_should_render_face(chunk, cache, chunk_coord, XOf(j), YOf(j), ZOf(j),
                                       Dirs[e][1], Dirs[e][2], Dirs[e][3]) } }

----------------------------------------------------------------------------
(* The remesh batch (remesh_modified_chunks)                                *)

\* faulty variant: bottom chunks first
SortBefore_bottom_up(a, b) ==
    \/ a[2] < b[2]
    \/ a[2] = b[2] /\ a[3] < b[3]
    \/ a[2] = b[2] /\ a[3] = b[3] /\ a[1] < b[1]

\* the comparator of entities_to_process.sort_by: y descending, z, x ascending
SortBefore(a, b) ==
    \/ a[2] > b[2]
    \/ a[2] = b[2] /\ a[3] < b[3]
    \/ a[2] = b[2] /\ a[3] = b[3] /\ a[1] < b[1]

RECURSIVE SortBatch(_)
SortBatch(S) ==
    IF S = {} THEN <<>>
    ELSE LET m == CHOOSE a \in S : \A b \in S \ {a} : SortBefore(a, b)
         IN  <<m>> \o SortBatch(S \ {m})

\* no truncation: the whole sorted list is the batch
KeepAll(seq, n) == seq

Truncate(seq, n) == SubSeq(seq, 1, Min(Len(seq), n))

Range(seq) == {seq[i] : i \in 1 .. Len(seq)}

\* entities_to_process: loaded, carrying Chunk and NeedsRemesh, sorted, truncated
EntitiesToProcess(loaded, chs, needs) ==
    Truncate(SortBatch({c \in loaded : c \in DOMAIN chs /\ c \in needs}),
             MAX_CHUNKS_PER_FRAME)

\* the coordinates the snapshot is asked for: the batch, its face neighbours,
\* and the chunks 2..8 above each batch chunk
CacheCoords(batch) ==
    batch \cup UNION {NeighborSet(c) : c \in batch}
          \cup {<<c[1], c[2] + dy, c[3]>> : c \in batch, dy \in 2 .. SHADOW_TRACE_CHUNKS}

BuildCache(batch, loaded, chs) ==
    [c \in {d \in CacheCoords(batch) : d \in loaded /\ d \in DOMAIN chs} |->
        CachedLightData_from_chunk(chs[c])]

\* faulty variant: reads of other chunks go to the chunks as they are now
RECURSIVE LightPass_live(_, _, _, _, _)
LightPass_live(pass, order, i, chs, cache) ==
    IF i > Len(order) THEN chs
    ELSE LET c == order[i]
             now == [d \in DOMAIN cache |-> CachedLightData_from_chunk(chs[d])]
             relit == IF pass = 0
                      THEN calculate_skylight_with_cache(chs[c], c, now)
                      ELSE propagate_light_from_cache(chs[c], c, now)
         IN  LightPass_live(pass, order, i + 1, [chs EXCEPT ![c] = relit], cache)

\* one light pass over the batch in the given processing order, all reads of
\* other chunks going to `cache`
RECURSIVE LightPass(_, _, _, _, _)
LightPass(pass, order, i, chs, cache) ==
    IF i > Len(order) THEN chs
    ELSE LET c == order[i]
             relit == IF pass = 0
                      THEN calculate_skylight_with_cache(chs[c], c, cache)
                      ELSE propagate_light_from_cache(chs[c], c, cache)
         IN  LightPass(pass, order, i + 1, [chs EXCEPT ![c] = relit], cache)

\* faulty variant: the snapshot is not updated after a pass
RefreshCache_stale(cache, order, chs) == cache

\* "update the cache with new light values" after a pass
RefreshCache(cache, order, chs) ==
    [c \in DOMAIN cache |->
        IF c \in Range(order) THEN CachedLightData_from_chunk(chs[c]) ELSE cache[c]]

\* passes pass .. LIGHT_PROPAGATION_PASSES-1: [chunks, cache]
RECURSIVE LightPasses(_, _, _, _)
LightPasses(pass, order, chs, cache) ==
    IF pass >= LIGHT_PROPAGATION_PASSES THEN [chunks |-> chs, cache |-> cache]
    ELSE The({ LightPasses(pass + 1, order, after,
                           IF pass < LIGHT_PROPAGATION_PASSES - 1
                           THEN RefreshCache(cache, order, after)
                           ELSE cache) :
               after \in {LightPass(pass, order, 1, chs, cache)} })

\* the whole of remesh_modified_chunks on (loaded, chs, needs, sky):
\* [chunks, meshes (of the batch), batch]
RemeshResult(loaded, chs, needs, sky) ==
    The({ The({ [chunks |-> lit.chunks,
                 meshes |-> [c \in Range(order) |->
                                create_chunk_mesh_with_cache(lit.chunks[c], c, lit.cache, sky)],
                 batch |-> Range(order)] :
                lit \in {LightPasses(0, order, chs, BuildCache(Range(order), loaded, chs))} }) :
          order \in {EntitiesToProcess(loaded, chs, needs)} })

----------------------------------------------------------------------------
(* Bounds of the explored world                                            *)

SKY_LIGHT_REMESH_DISTANCE == 0
MAX_STALE_PER_FRAME == 2

Workers == 2            \* generation tasks the pool runs at once
MaxEdits == 1           \* block edits in a run
MaxSkyChanges == 1      \* sky-level changes in a run

\* chunk coordinates the camera visits
PlayerChunks == {<<0, 1, 0>>, <<0, 2, 0>>}

\* coordinates whose generation task completes within the horizon
EditFocus == {<<0, 1, 0>>, <<0, 2, 0>>}
StreamFocus == {<<0, 0, 0>>, <<0, 1, 0>>, <<0, 2, 0>>, <<0, 3, 0>>}

\* chunks in which the ray of block_interaction finds its block
EditTargets == {<<0, 2, 0>>}

\* blocks the selected hotbar slot can hold
SelectableBlocks == {STONE_ID}

FaceNormals ==
    << <<-1, 0, 0>>, <<1, 0, 0>>, <<0, -1, 0>>, <<0, 1, 0>>, <<0, 0, -1>>, <<0, 0, 1>> >>

----------------------------------------------------------------------------
(* Streaming (world/terrain.rs)                                            *)

\* ChunkCoord::from_world_pos on integer block positions
from_world_pos(p) == <<p[1] \div CHUNK_SIZE, p[2] \div CHUNK_SIZE, p[3] \div CHUNK_SIZE>>

\* camera y at start-up: get_spawn_height = terrain height + 3.1, floored per chunk
SpawnChunk ==
    <<0 \div CHUNK_SIZE, (get_terrain_height(WORLD_SEED, 0, 0) + 3) \div CHUNK_SIZE,
      0 \div CHUNK_SIZE>>

\* faulty variant: no "already loaded or loading" test before dispatching
SpawnBody_nocheck(chunk_coord, player, loaded, st) ==
    IF distance_squared(chunk_coord, player) > VIEW_DISTANCE * VIEW_DISTANCE THEN st
    ELSE [loading |-> st.loading \cup {chunk_coord},
          tasks |-> Append(st.tasks, [pc |-> "queued", coord |-> chunk_coord,
                                      seed |-> WORLD_SEED,
                                      ids |-> <<GRASS_ID, DIRT_ID, STONE_ID, BEDROCK_ID>>,
                                      chunk |-> NoChunk, mesh |-> NoMesh])]

\* a loop body whose radius test leaves out the rim of the sphere
SpawnBody_open(chunk_coord, player, loaded, st) ==
    IF distance_squared(chunk_coord, player) >= VIEW_DISTANCE * VIEW_DISTANCE THEN st
    ELSE IF chunk_coord \in loaded \/ chunk_coord \in st.loading THEN st
    ELSE [loading |-> st.loading \cup {chunk_coord},
          tasks |-> Append(st.tasks, [pc |-> "queued", coord |-> chunk_coord,
                                      seed |-> WORLD_SEED,
                                      ids |-> <<GRASS_ID, DIRT_ID, STONE_ID, BEDROCK_ID>>,
                                      chunk |-> NoChunk, mesh |-> NoMesh])]

\* a loop body without the radius test: the whole cube of the loops is loaded
SpawnBody_cube(chunk_coord, player, loaded, st) ==
    IF chunk_coord \in loaded \/ chunk_coord \in st.loading THEN st
    ELSE [loading |-> st.loading \cup {chunk_coord},
          tasks |-> Append(st.tasks, [pc |-> "queued", coord |-> chunk_coord,
                                      seed |-> WORLD_SEED,
                                      ids |-> <<GRASS_ID, DIRT_ID, STONE_ID, BEDROCK_ID>>,
                                      chunk |-> NoChunk, mesh |-> NoMesh])]

\* the body of the innermost loop for one coordinate; st = [loading, tasks] is
\* what the loops have made of loading_chunks and of the ChunkTask entities
SpawnBody(chunk_coord, player, loaded, st) ==
    IF distance_squared(chunk_coord, player) > VIEW_DISTANCE * VIEW_DISTANCE THEN st
    ELSE IF chunk_coord \in loaded \/ chunk_coord \in st.loading THEN st
    ELSE [loading |-> st.loading \cup {chunk_coord},
          tasks |-> Append(st.tasks, [pc |-> "queued", coord |-> chunk_coord,
                                      seed |-> WORLD_SEED,
                                      ids |-> <<GRASS_ID, DIRT_ID, STONE_ID, BEDROCK_ID>>,
                                      chunk |-> NoChunk, mesh |-> NoMesh])]

\* "for dz in -VIEW_DISTANCE..=VIEW_DISTANCE", from dz on
RECURSIVE SpawnLoopZ(_, _, _, _, _, _)
SpawnLoopZ(dx, dy, dz, player, loaded, st) ==
    IF dz > VIEW_DISTANCE THEN st
    ELSE The({ SpawnLoopZ(dx, dy, dz + 1, player, loaded, s) :
               s \in {SpawnBody(ChunkCoordNew(player[1] + dx, player[2] + dy, player[3] + dz),
                                player, loaded, st)} })

\* "for dy in -VIEW_DISTANCE_VERTICAL..=VIEW_DISTANCE_VERTICAL", from dy on
RECURSIVE SpawnLoopY(_, _, _, _, _)
SpawnLoopY(dx, dy, player, loaded, st) ==
    IF dy > VIEW_DISTANCE_VERTICAL THEN st
    ELSE The({ SpawnLoopY(dx, dy + 1, player, loaded, s) :
               s \in {SpawnLoopZ(dx, dy, -VIEW_DISTANCE, player, loaded, st)} })

\* "for dx in -VIEW_DISTANCE..=VIEW_DISTANCE", from dx on
RECURSIVE SpawnLoopX(_, _, _, _)
SpawnLoopX(dx, player, loaded, st) ==
    IF dx > VIEW_DISTANCE THEN st
    ELSE The({ SpawnLoopX(dx + 1, player, loaded, s) :
               s \in {SpawnLoopY(dx, -VIEW_DISTANCE_VERTICAL, player, loaded, st)} })

\* the tasks one call of spawn_chunks_around_player adds: [loading, tasks]
SpawnLoop(player, loaded, loading, ts) ==
    SpawnLoopX(-VIEW_DISTANCE, player, loaded, [loading |-> loading, tasks |-> ts])

spawn_chunks_around_player ==
    \E r \in {SpawnLoop(player_chunk, loaded_chunks, loading_chunks, tasks)} :
        /\ r.tasks # tasks
        /\ loading_chunks' = r.loading
        /\ tasks' = r.tasks
        /\ last_op' = [op |-> "spawn", coords |-> {}, clean |-> FALSE]
        /\ UNCHANGED <<player_chunk, scheduled, loaded_chunks, chunks, needs_remesh,
                       sky_light_level, chunk_sky_light, meshes, edits, sky_changes, probe>>

Running == {i \in 1 .. Len(tasks) : tasks[i].pc = "filled"}

\* first half of generate_chunk on the pool: Chunk::new and the fill loops
TaskFill(i) ==
    /\ tasks[i].pc = "queued"
    /\ tasks[i].coord \in scheduled
    /\ Cardinality(Running) < Workers
    /\ tasks' = [tasks EXCEPT ![i].pc = "filled",
                              ![i].chunk = GenerateBlocks(tasks[i].coord, tasks[i].seed,
                                                          tasks[i].ids[1], tasks[i].ids[2],
                                                          tasks[i].ids[3], tasks[i].ids[4])]
    /\ last_op' = [op |-> "task", coords |-> {}, clean |-> FALSE]
    /\ UNCHANGED <<player_chunk, scheduled, loaded_chunks, loading_chunks, chunks,
                   needs_remesh, sky_light_level, chunk_sky_light, meshes, edits,
                   sky_changes, probe>>

\* faulty variant: the task lights its chunk against the chunks of the index
TaskLight_indexed(i) ==
    /\ tasks[i].pc = "filled"
    /\ \E lit \in {calculate_skylight_with_neighbors(tasks[i].chunk,
                        [neg_x |-> NoChunk, pos_x |-> NoChunk, neg_y |-> NoChunk,
                         pos_y |-> IF neighbor_coords(tasks[i].coord)[4] \in DOMAIN chunks
                                   THEN chunks[neighbor_coords(tasks[i].coord)[4]]
                                   ELSE NoChunk,
                         neg_z |-> NoChunk, pos_z |-> NoChunk])} :
           tasks' = [tasks EXCEPT ![i].pc = "done",
                                  ![i].chunk = lit,
                                  ![i].mesh = create_chunk_mesh(lit)]
    /\ last_op' = [op |-> "task", coords |-> {}, clean |-> FALSE]
    /\ UNCHANGED <<player_chunk, scheduled, loaded_chunks, loading_chunks, chunks,
                   needs_remesh, sky_light_level, chunk_sky_light, meshes, edits,
                   sky_changes, probe>>

\* second half of generate_chunk: calculate_skylight, then the mesh; the future is ready
TaskLight(i) ==
    /\ tasks[i].pc = "filled"
    /\ \E lit \in {calculate_skylight(tasks[i].chunk)} :
           tasks' = [tasks EXCEPT ![i].pc = "done",
                                  ![i].chunk = lit,
                                  ![i].mesh = create_chunk_mesh(lit)]
    /\ last_op' = [op |-> "task", coords |-> {}, clean |-> FALSE]
    /\ UNCHANGED <<player_chunk, scheduled, loaded_chunks, loading_chunks, chunks,
                   needs_remesh, sky_light_level, chunk_sky_light, meshes, edits,
                   sky_changes, probe>>

\* extend or overwrite a coordinate-keyed map
Insert(f, k, v) == [c \in DOMAIN f \cup {k} |-> IF c = k THEN v ELSE f[c]]

\* faulty variant: a task is integrated as soon as its fill loops are over
RECURSIVE ProcessLoop_eager(_, _, _)
ProcessLoop_eager(ts, i, w) ==
    IF i > Len(ts) THEN w
    ELSE IF ts[i].pc \notin {"filled", "done"}
         THEN ProcessLoop_eager(ts, i + 1, [w EXCEPT !.tasks = Append(@, ts[i])])
         ELSE LET coord == ts[i].coord
                  loaded == w.loaded \cup {coord}
              IN  ProcessLoop_eager(ts, i + 1,
                      [loading |-> w.loading \ {coord},
                       loaded |-> loaded,
                       chunks |-> Insert(w.chunks, coord, ts[i].chunk),
                       meshes |-> Insert(w.meshes, coord, ts[i].mesh),
                       needs |-> w.needs \cup {coord}
                                         \cup {n \in NeighborSet(coord) : n \in loaded},
                       tasks |-> w.tasks,
                       integrated |-> w.integrated \cup {coord}])

\* faulty variant: only the new chunk is marked, not its loaded neighbours
RECURSIVE ProcessLoop_nomark(_, _, _)
ProcessLoop_nomark(ts, i, w) ==
    IF i > Len(ts) THEN w
    ELSE IF ts[i].pc # "done"
         THEN ProcessLoop_nomark(ts, i + 1, [w EXCEPT !.tasks = Append(@, ts[i])])
         ELSE LET coord == ts[i].coord
              IN  ProcessLoop_nomark(ts, i + 1,
                      [loading |-> w.loading \ {coord},
                       loaded |-> w.loaded \cup {coord},
                       chunks |-> Insert(w.chunks, coord, ts[i].chunk),
                       meshes |-> Insert(w.meshes, coord, ts[i].mesh),
                       needs |-> w.needs \cup {coord},
                       tasks |-> w.tasks,
                       integrated |-> w.integrated \cup {coord}])

\* the loop of process_chunk_tasks from task i on; w carries the state it mutates
RECURSIVE ProcessLoop(_, _, _)
ProcessLoop(ts, i, w) ==
    IF i > Len(ts) THEN w
    ELSE IF ts[i].pc # "done"
         THEN ProcessLoop(ts, i + 1, [w EXCEPT !.tasks = Append(@, ts[i])])
         ELSE LET coord == ts[i].coord
                  loaded == w.loaded \cup {coord}
              IN  ProcessLoop(ts, i + 1,
                      [loading |-> w.loading \ {coord},
                       loaded |-> loaded,
                       chunks |-> Insert(w.chunks, coord, ts[i].chunk),
                       meshes |-> Insert(w.meshes, coord, ts[i].mesh),
                       needs |-> w.needs \cup {coord}
                                         \cup {n \in NeighborSet(coord) : n \in loaded},
                       tasks |-> w.tasks,
                       integrated |-> w.integrated \cup {coord}])

process_chunk_tasks ==
    \E w \in {ProcessLoop(tasks, 1,
                 [loading |-> loading_chunks, loaded |-> loaded_chunks, chunks |-> chunks,
                  meshes |-> meshes, needs |-> needs_remesh, tasks |-> <<>>,
                  integrated |-> {}])} :
        /\ w.integrated # {}
        /\ loading_chunks' = w.loading
        /\ loaded_chunks' = w.loaded
        /\ chunks' = w.chunks
        /\ meshes' = w.meshes
        /\ needs_remesh' = w.needs
        /\ tasks' = w.tasks
        /\ last_op' = [op |-> "process", coords |-> w.integrated, clean |-> FALSE]
        /\ UNCHANGED <<player_chunk, scheduled, sky_light_level, chunk_sky_light, edits,
                       sky_changes, probe>>

\* the camera crosses a chunk border (camera_movement_controls)
MovePlayer(p) ==
    /\ p \in PlayerChunks
    /\ p \in NeighborSet(player_chunk)
    /\ player_chunk' = p
    /\ last_op' = [op |-> "move", coords |-> {}, clean |-> FALSE]
    /\ UNCHANGED <<scheduled, loaded_chunks, loading_chunks, tasks, chunks, needs_remesh,
                   sky_light_level, chunk_sky_light, meshes, edits, sky_changes, probe>>

----------------------------------------------------------------------------
(* Block edits (systems/block_interaction.rs)                              *)

\* faulty variant: every loaded face neighbour of the edited chunk is marked
mark_all_neighbor_chunks(chunk_coord, x, y, z, loaded) ==
    NeighborSet(chunk_coord) \cap loaded

\* the coordinates mark_neighbor_chunks_for_remesh marks
mark_neighbor_chunks_for_remesh(chunk_coord, x, y, z, loaded) ==
    LET L == CHUNK_SIZE - 1
        mx == IF x = 0 THEN {<<chunk_coord[1] - 1, chunk_coord[2], chunk_coord[3]>>}
              ELSE IF x = L THEN {<<chunk_coord[1] + 1, chunk_coord[2], chunk_coord[3]>>}
              ELSE {}
        my == IF y = 0 THEN {<<chunk_coord[1], chunk_coord[2] - 1, chunk_coord[3]>>}
              ELSE IF y = L THEN {<<chunk_coord[1], chunk_coord[2] + 1, chunk_coord[3]>>}
              ELSE {}
        mz == IF z = 0 THEN {<<chunk_coord[1], chunk_coord[2], chunk_coord[3] - 1>>}
              ELSE IF z = L THEN {<<chunk_coord[1], chunk_coord[2], chunk_coord[3] + 1>>}
              ELSE {}
    IN  (mx \cup my \cup mz) \cap loaded

\* world block position of voxel i of chunk c
BlockPos(c, i) ==
    <<c[1] * CHUNK_SIZE + XOf(i), c[2] * CHUNK_SIZE + YOf(i), c[3] * CHUNK_SIZE + ZOf(i)>>

\* left-click branch on the hit voxel: [chunks, marks, done]
DestroyBlock(chs, loaded, c, i, creative) ==
    LET current_block == chs[c].blocks[i]
        can_destroy == creative \/ current_block # BEDROCK_ID
    IN  IF can_destroy
        THEN [chunks |-> [chs EXCEPT ![c] =
                             calculate_skylight(set_block(@, XOf(i), YOf(i), ZOf(i), AIR))],
              marks |-> {c} \cup mark_neighbor_chunks_for_remesh(c, XOf(i), YOf(i), ZOf(i),
                                                                 loaded),
              done |-> TRUE]
        ELSE [chunks |-> chs, marks |-> {}, done |-> FALSE]

\* right-click branch for a hit at block_pos with the given face normal
PlaceBlock(chs, loaded, block_pos, face_normal, selected_block) ==
    LET placement_pos == <<block_pos[1] + face_normal[1], block_pos[2] + face_normal[2],
                           block_pos[3] + face_normal[3]>>
        pcc == from_world_pos(placement_pos)
        lx == placement_pos[1] - pcc[1] * CHUNK_SIZE
        ly == placement_pos[2] - pcc[2] * CHUNK_SIZE
        lz == placement_pos[3] - pcc[3] * CHUNK_SIZE
    IN  IF /\ pcc \in loaded
           /\ pcc \in DOMAIN chs
           /\ InRange(lx, ly, lz)
           /\ is_air(get_block(chs[pcc], lx, ly, lz))
        THEN [chunks |-> [chs EXCEPT ![pcc] =
                             calculate_skylight(set_block(@, lx, ly, lz, selected_block))],
              marks |-> {pcc} \cup mark_neighbor_chunks_for_remesh(pcc, lx, ly, lz, loaded),
              done |-> TRUE]
        ELSE [chunks |-> chs, marks |-> {}, done |-> FALSE]

\* block_interaction with the ray hitting voxel i of loaded chunk c on face f.
\* A placement that would intersect the player returns early: it is the call
\* with right = FALSE.
block_interaction(c, i, f, left, right, creative, selected_block) ==
    /\ edits < MaxEdits
    /\ c \in EditTargets
    /\ c \in loaded_chunks
    /\ c \in DOMAIN chunks
    /\ ~is_air(chunks[c].blocks[i])
    /\ \E d \in {IF left THEN DestroyBlock(chunks, loaded_chunks, c, i, creative)
                  ELSE [chunks |-> chunks, marks |-> {}, done |-> FALSE]} :
       \E p \in {IF right
                  THEN PlaceBlock(d.chunks, loaded_chunks, BlockPos(c, i), FaceNormals[f],
                                  selected_block)
                  ELSE [chunks |-> d.chunks, marks |-> {}, done |-> FALSE]} :
           /\ d.done \/ p.done
           /\ chunks' = p.chunks
           /\ needs_remesh' = needs_remesh \cup d.marks \cup p.marks
           /\ last_op' = [op |-> "edit", coords |-> d.marks \cup p.marks, clean |-> FALSE]
    /\ edits' = edits + 1
    /\ UNCHANGED <<player_chunk, scheduled, loaded_chunks, loading_chunks, tasks,
                   sky_light_level, chunk_sky_light, meshes, sky_changes, probe>>

----------------------------------------------------------------------------
(* Day/night coupling (systems/sky.rs)                                     *)

ChebyshevDistance(a, b) ==
    Max(Max(Abs(a[1] - b[1]), Abs(a[2] - b[2])), Abs(a[3] - b[3]))

\* update_sky_light_level when the time of day yields new_level
update_sky_light_level(new_level) ==
    /\ sky_changes < MaxSkyChanges
    /\ new_level # sky_light_level
    /\ sky_light_level' = new_level
    /\ needs_remesh' = needs_remesh \cup
           {c \in loaded_chunks :
               ChebyshevDistance(c, player_chunk) <= SKY_LIGHT_REMESH_DISTANCE}
    /\ sky_changes' = sky_changes + 1
    /\ last_op' = [op |-> "sky",
                   coords |-> {c \in loaded_chunks :
                       ChebyshevDistance(c, player_chunk) <= SKY_LIGHT_REMESH_DISTANCE},
                   clean |-> needs_remesh = {}]
    /\ UNCHANGED <<player_chunk, scheduled, loaded_chunks, loading_chunks, tasks, chunks,
                   chunk_sky_light, meshes, edits, probe>>

\* loaded chunks the staleness sweep would mark if it reached them
StaleCandidates ==
    {c \in loaded_chunks :
        /\ ChebyshevDistance(c, player_chunk) <= SKY_LIGHT_REMESH_DISTANCE + 1
        /\ \/ c \notin DOMAIN chunk_sky_light
           \/ chunk_sky_light[c] # sky_light_level}

\* a sweep that checks no further than the distance the sky change marks at
update_stale_chunk_lighting_near(marked) ==
    /\ marked \subseteq {c \in loaded_chunks :
                           /\ ChebyshevDistance(c, player_chunk) <= SKY_LIGHT_REMESH_DISTANCE
                           /\ \/ c \notin DOMAIN chunk_sky_light
                              \/ chunk_sky_light[c] # sky_light_level}
    /\ ~(marked \subseteq needs_remesh)
    /\ needs_remesh' = needs_remesh \cup marked
    /\ last_op' = [op |-> "stale", coords |-> marked, clean |-> FALSE]
    /\ UNCHANGED <<player_chunk, scheduled, loaded_chunks, loading_chunks, tasks, chunks,
                   sky_light_level, chunk_sky_light, meshes, edits, sky_changes, probe>>

\* update_stale_chunk_lighting; the map's iteration order decides which
\* MAX_STALE_PER_FRAME candidates it reaches first
update_stale_chunk_lighting(marked) ==
    /\ marked \subseteq StaleCandidates
    /\ Cardinality(marked) = Min(MAX_STALE_PER_FRAME, Cardinality(StaleCandidates))
    /\ ~(marked \subseteq needs_remesh)
    /\ needs_remesh' = needs_remesh \cup marked
    /\ last_op' = [op |-> "stale", coords |-> marked, clean |-> FALSE]
    /\ UNCHANGED <<player_chunk, scheduled, loaded_chunks, loading_chunks, tasks, chunks,
                   sky_light_level, chunk_sky_light, meshes, edits, sky_changes, probe>>

----------------------------------------------------------------------------
(* remesh_modified_chunks as one step                                      *)

\* faulty variant: the batch clears every mark, also of the chunks it left out
remesh_modified_chunks_clear ==
    \E r \in {RemeshResult(loaded_chunks, chunks, needs_remesh, sky_light_level)} :
        /\ r.batch # {}
        /\ chunks' = r.chunks
        /\ meshes' = [c \in DOMAIN meshes |-> IF c \in r.batch THEN r.meshes[c] ELSE meshes[c]]
        /\ needs_remesh' = {}
        /\ chunk_sky_light' = [c \in DOMAIN chunk_sky_light \cup r.batch |->
                                  IF c \in r.batch THEN sky_light_level
                                  ELSE chunk_sky_light[c]]
        /\ last_op' = [op |-> "remesh", coords |-> r.batch, clean |-> last_op.op = "sky" /\ last_op.clean]
        /\ UNCHANGED <<player_chunk, scheduled, loaded_chunks, loading_chunks, tasks,
                       sky_light_level, edits, sky_changes, probe>>

remesh_modified_chunks ==
    \E r \in {RemeshResult(loaded_chunks, chunks, needs_remesh, sky_light_level)} :
        /\ r.batch # {}
        /\ chunks' = r.chunks
        /\ meshes' = [c \in DOMAIN meshes |-> IF c \in r.batch THEN r.meshes[c] ELSE meshes[c]]
        /\ needs_remesh' = needs_remesh \ r.batch
        /\ chunk_sky_light' = [c \in DOMAIN chunk_sky_light \cup r.batch |->
                                  IF c \in r.batch THEN sky_light_level
                                  ELSE chunk_sky_light[c]]
        /\ last_op' = [op |-> "remesh", coords |-> r.batch, clean |-> last_op.op = "sky" /\ last_op.clean]
        /\ UNCHANGED <<player_chunk, scheduled, loaded_chunks, loading_chunks, tasks,
                       sky_light_level, edits, sky_changes, probe>>

----------------------------------------------------------------------------
(* Specifications                                                          *)

EmptyMap == [c \in {} |-> 0]

InitWorld ==
    /\ player_chunk = SpawnChunk
    /\ loaded_chunks = {}
    /\ loading_chunks = {}
    /\ tasks = <<>>
    /\ chunks = EmptyMap
    /\ needs_remesh = {}
    /\ sky_light_level = MAX_LIGHT_LEVEL
    /\ chunk_sky_light = EmptyMap
    /\ meshes = EmptyMap
    /\ edits = 0
    /\ sky_changes = 0
    /\ last_op = [op |-> "init", coords |-> {}, clean |-> FALSE]

Init ==
    /\ InitWorld
    /\ scheduled = EditFocus
    /\ probe = NoChunk

InitStream ==
    /\ InitWorld
    /\ scheduled = StreamFocus
    /\ probe = NoChunk

\* chunk generation around a camera that stays in its chunk
Generation ==
    \/ spawn_chunks_around_player
    \/ \E i \in 1 .. Len(tasks) : TaskFill(i)
    \/ \E i \in 1 .. Len(tasks) : TaskLight(i)
    \/ process_chunk_tasks

Streaming ==
    \/ Generation
    \/ \E p \in PlayerChunks : MovePlayer(p)

\* the inputs of one call of block_interaction that can matter: the face only
\* for a placement, the game mode only for a left click on bedrock
Clicks(c, i) ==
    { [left |-> l, right |-> r, face |-> f, creative |-> cr] :
        l \in BOOLEAN, r \in BOOLEAN, f \in 1 .. 6, cr \in BOOLEAN } 

EditInputs(c, i) ==
    { k \in Clicks(c, i) :
        /\ k.left \/ k.right
        /\ ~k.right => k.face = 1
        /\ ~(k.left /\ chunks[c].blocks[i] = BEDROCK_ID) => k.creative }

Next ==
    \/ Generation
    \/ \E c \in loaded_chunks \cap EditTargets, i \in Voxels :
          /\ ~is_air(chunks[c].blocks[i])
          /\ \E k \in EditInputs(c, i), selected_block \in SelectableBlocks :
                block_interaction(c, i, k.face, k.left, k.right, k.creative, selected_block)
    \/ \E new_level \in MOONLIGHT_LEVEL .. MAX_LIGHT_LEVEL : update_sky_light_level(new_level)
    \/ \E marked \in SUBSET StaleCandidates : update_stale_chunk_lighting(marked)
    \/ remesh_modified_chunks

Spec == Init /\ [][Next]_vars

SpecStream == InitStream /\ [][Streaming]_vars

----------------------------------------------------------------------------
(* The light passes on one chunk, over every block content                 *)

MaxProbeSteps == 2      \* passes applied in a row to the chunk under test

ProbeCoord == <<0, 0, 0>>
ProbeBlocks == {AIR, STONE_ID}

\* a chunk above whose corner column carries one block, lit on its own
RoofChunk == calculate_skylight(set_block(ChunkNew(<<0, 1, 0>>), 0, 0, 0, STONE_ID))

\* neighbour chunks the passes are run against: coord -> Chunk
ProbeEnvs ==
    { EmptyMap,
      <<0, 1, 0>> :> ChunkNew(<<0, 1, 0>>),
      <<0, 1, 0>> :> RoofChunk,
      <<-1, 0, 0>> :> ChunkNew(<<-1, 0, 0>>) }

ChunkRef(env, c) == IF c \in DOMAIN env THEN env[c] ELSE NoChunk

\* the NeighborLightData of a chunk at coord c among env
NeighborLightDataOf(env, c) ==
    [neg_x |-> ChunkRef(env, neighbor_coords(c)[1]),
     pos_x |-> ChunkRef(env, neighbor_coords(c)[2]),
     neg_y |-> ChunkRef(env, neighbor_coords(c)[3]),
     pos_y |-> ChunkRef(env, neighbor_coords(c)[4]),
     neg_z |-> ChunkRef(env, neighbor_coords(c)[5]),
     pos_z |-> ChunkRef(env, neighbor_coords(c)[6])]

\* the snapshot of env
CacheOf(env) == [c \in DOMAIN env |-> CachedLightData_from_chunk(env[c])]

ProbeStep(op, result, quiet) ==
    /\ probe.steps < MaxProbeSteps
    /\ probe' = [probe EXCEPT !.chunk = result, !.prev = probe.chunk, !.op = op,
                              !.quiet = quiet, !.steps = probe.steps + 1]
    /\ UNCHANGED <<player_chunk, scheduled, loaded_chunks, loading_chunks, tasks, chunks,
                   needs_remesh, sky_light_level, chunk_sky_light, meshes, edits,
                   sky_changes, last_op>>

ProbeCalculateSkylight ==
    ProbeStep("calculate_skylight", calculate_skylight(probe.chunk),
              FloodLive(SeedLive(probe.chunk, NeighborLightDataNone, 0),
                        NeighborLightDataNone, 0).quiet)

ProbeCalculateSkylightWithNeighbors ==
    \E n \in {NeighborLightDataOf(probe.env, ProbeCoord)} :
        ProbeStep("calculate_skylight_with_neighbors",
                  calculate_skylight_with_neighbors(probe.chunk, n),
                  FloodLive(SeedLive(probe.chunk, n, 0), n, 0).quiet)

ProbeCalculateSkylightWithCache ==
    \E cache \in {CacheOf(probe.env)} :
        ProbeStep("calculate_skylight_with_cache",
                  calculate_skylight_with_cache(probe.chunk, ProbeCoord, cache),
                  FloodCache(SeedCache(probe.chunk, ProbeCoord, cache, 0), ProbeCoord,
                             cache, 0).quiet)

ProbePropagateLightFromCache ==
    \E cache \in {CacheOf(probe.env)} :
        ProbeStep("propagate_light_from_cache",
                  propagate_light_from_cache(probe.chunk, ProbeCoord, cache),
                  FloodCache(probe.chunk, ProbeCoord, cache, 0).quiet)

\* the sweep loop of calculate_skylight_with_neighbors on its own
ProbeFlood ==
    \E r \in {FloodLive(probe.chunk, NeighborLightDataOf(probe.env, ProbeCoord), 0)} :
        ProbeStep("flood", r.chunk, r.quiet)

InitLight ==
    /\ InitWorld
    /\ scheduled = {}
    /\ \E blocks \in [Voxels -> ProbeBlocks], env \in ProbeEnvs :
          probe = [chunk |-> [ChunkNew(ProbeCoord) EXCEPT !.blocks = blocks],
                   prev |-> [ChunkNew(ProbeCoord) EXCEPT !.blocks = blocks],
                   op |-> "new", env |-> env, quiet |-> FALSE, steps |-> 0]

NextLight ==
    \/ ProbeCalculateSkylight
    \/ ProbeCalculateSkylightWithNeighbors
    \/ ProbeCalculateSkylightWithCache
    \/ ProbePropagateLightFromCache
    \/ ProbeFlood

SpecLight == InitLight /\ [][NextLight]_vars

----------------------------------------------------------------------------
(* The light passes of one remesh batch, over stacked chunks of every       *)
(* block content                                                           *)

BatchLower == <<0, 0, 0>>
BatchUpper == <<0, 1, 0>>
BatchSide == <<1, 0, 0>>

\* block arrays of the lower chunk of the batch
LowerBlocks ==
    { [v \in Voxels |-> AIR],
      [v \in Voxels |-> IF YOf(v) = 0 THEN STONE_ID ELSE AIR],
      [v \in Voxels |-> IF XOf(v) = 0 /\ ZOf(v) = 0 THEN AIR ELSE STONE_ID] }

\* a chunk as an edit leaves it: blocks set, then calculate_skylight
EditedChunk(coord, blocks) == calculate_skylight([ChunkNew(coord) EXCEPT !.blocks = blocks])

\* the batch of the two stacked chunks, both marked, with or without a loaded
\* unmarked chunk beside the lower one
InitBatch ==
    /\ InitWorld
    /\ scheduled = {}
    /\ \E upper \in [Voxels -> ProbeBlocks], lower \in LowerBlocks, side \in BOOLEAN :
          \E chs \in {IF side
                       THEN (BatchLower :> EditedChunk(BatchLower, lower))
                            @@ (BatchUpper :> EditedChunk(BatchUpper, upper))
                            @@ (BatchSide :> ChunkNew(BatchSide))
                       ELSE (BatchLower :> EditedChunk(BatchLower, lower))
                            @@ (BatchUpper :> EditedChunk(BatchUpper, upper))} :
              probe = [chs |-> chs,
                       order |-> EntitiesToProcess(DOMAIN chs, chs, {BatchLower, BatchUpper}),
                       cache |-> BuildCache({BatchLower, BatchUpper}, DOMAIN chs, chs),
                       prev_chs |-> chs,
                       prev_cache |-> BuildCache({BatchLower, BatchUpper}, DOMAIN chs, chs),
                       pass |-> 0]

\* one iteration of "for pass in 0..LIGHT_PROPAGATION_PASSES" with its cache update
BatchLightPass ==
    /\ probe.pass < LIGHT_PROPAGATION_PASSES
    /\ \E after \in {LightPass(probe.pass, probe.order, 1, probe.chs, probe.cache)} :
          probe' = [probe EXCEPT
                       !.chs = after,
                       !.cache = IF probe.pass < LIGHT_PROPAGATION_PASSES - 1
                                 THEN RefreshCache(probe.cache, probe.order, after)
                                 ELSE probe.cache,
                       !.prev_chs = probe.chs,
                       !.prev_cache = probe.cache,
                       !.pass = probe.pass + 1]
    /\ UNCHANGED <<player_chunk, scheduled, loaded_chunks, loading_chunks, tasks, chunks,
                   needs_remesh, sky_light_level, chunk_sky_light, meshes, edits,
                   sky_changes, last_op>>

SpecBatch == InitBatch /\ [][BatchLightPass]_vars

----------------------------------------------------------------------------
(* The four accessors of Chunk, on coordinates in and out of range          *)

MaxStoreSteps == 3      \* accessor calls in a row on the chunk under test

\* the values an accessor call can be given besides its coordinates
StoreArgs(op) ==
    IF op = "set_block" THEN {AIR, STONE_ID}
    ELSE IF op = "set_light" THEN {1, MAX_LIGHT_LEVEL + 1}
    ELSE {0}

InitStore ==
    /\ InitWorld
    /\ scheduled = {}
    /\ probe = [chunk |-> ChunkNew(ProbeCoord), prev |-> ChunkNew(ProbeCoord), op |-> "new",
                x |-> 0, y |-> 0, z |-> 0, arg |-> 0, ret |-> 0, last_set |-> <<>>,
                steps |-> 0]

\* one call of get_block, set_block, get_light or set_light; a usize coordinate
\* is in range below CHUNK_SIZE, and CHUNK_SIZE stands for every larger value
ChunkAccess ==
    /\ probe.steps < MaxStoreSteps
    /\ \E op \in {"get_block", "set_block", "get_light", "set_light"},
          x \in 0 .. CHUNK_SIZE, y \in 0 .. CHUNK_SIZE, z \in 0 .. CHUNK_SIZE :
          \E arg \in StoreArgs(op) :
              probe' = [chunk |-> IF op = "set_block" THEN set_block(probe.chunk, x, y, z, arg)
                                  ELSE IF op = "set_light"
                                       THEN set_light(probe.chunk, x, y, z, arg)
                                  ELSE probe.chunk,
                        prev |-> probe.chunk,
                        op |-> op, x |-> x, y |-> y, z |-> z, arg |-> arg,
                        ret |-> IF op = "get_block" THEN get_block(probe.chunk, x, y, z)
                                ELSE IF op = "get_light" THEN get_light(probe.chunk, x, y, z)
                                ELSE 0,
                        last_set |-> IF op = "set_block" /\ x < CHUNK_SIZE /\ y < CHUNK_SIZE
                                        /\ z < CHUNK_SIZE
                                     THEN <<x, y, z, arg>>
                                     ELSE probe.last_set,
                        steps |-> probe.steps + 1]
    /\ UNCHANGED <<player_chunk, scheduled, loaded_chunks, loading_chunks, tasks, chunks,
                   needs_remesh, sky_light_level, chunk_sky_light, meshes, edits,
                   sky_changes, last_op>>

SpecStore == InitStore /\ [][ChunkAccess]_vars

----------------------------------------------------------------------------
(* The two mesh builders on one chunk with any of its six neighbours       *)
(* supplied or missing                                                      *)

\* what a mesh of these faces holds: four vertices and six indices per face
MeshBuffers(mesh) ==
    [positions |-> 4 * Cardinality(mesh), indices |-> 6 * Cardinality(mesh)]

InitMesh ==
    /\ InitWorld
    /\ scheduled = {}
    /\ LET \* stored light that differs from voxel to voxel
           levels == [i \in Voxels |-> i % (MAX_LIGHT_LEVEL + 1)]
           \* the chunk under the builder: all air, one stone voxel anywhere,
           \* the bottom layer, all stone
           centers == { [v \in Voxels |-> AIR], [v \in Voxels |-> STONE_ID],
                        [v \in Voxels |-> IF YOf(v) = 0 THEN DIRT_ID ELSE AIR] }
                      \cup { [v \in Voxels |-> IF v = s THEN STONE_ID ELSE AIR] : s \in Voxels }
           \* a neighbour: missing, all stone, or stone in its first voxels only
           sides(c) == { NoChunk,
                         [ChunkNew(c) EXCEPT !.blocks = [v \in Voxels |-> STONE_ID],
                                             !.light_levels = [v \in Voxels |-> 0]],
                         [ChunkNew(c) EXCEPT
                             !.blocks = [v \in Voxels |-> IF v < (NVOX \div 2) - 1
                                                          THEN STONE_ID ELSE AIR],
                             !.light_levels = levels] }
           n == neighbor_coords(ProbeCoord)
       IN  \E blocks \in centers, sky \in {MOONLIGHT_LEVEL, MAX_LIGHT_LEVEL},
              neg_x \in sides(n[1]), pos_x \in sides(n[2]), neg_y \in sides(n[3]),
              pos_y \in sides(n[4]), neg_z \in sides(n[5]), pos_z \in sides(n[6]) :
              probe = [chunk |-> [ChunkNew(ProbeCoord) EXCEPT !.blocks = blocks,
                                                              !.light_levels = levels],
                       neighbors |-> [neg_x |-> neg_x, pos_x |-> pos_x, neg_y |-> neg_y,
                                      pos_y |-> pos_y, neg_z |-> neg_z, pos_z |-> pos_z],
                       sky |-> sky, built |-> FALSE,
                       plain |-> NoMesh, live |-> NoMesh, cached |-> NoMesh,
                       buffers |-> MeshBuffers(NoMesh)]

\* the chunk is meshed three times: by create_chunk_mesh, by the builder that
\* holds references to the neighbours, and by the builder that reads the
\* snapshots taken of the chunk and of the same neighbours
BuildMeshes ==
    /\ ~probe.built
    /\ LET n == neighbor_coords(ProbeCoord)
           side == <<probe.neighbors.neg_x, probe.neighbors.pos_x, probe.neighbors.neg_y,
                     probe.neighbors.pos_y, probe.neighbors.neg_z, probe.neighbors.pos_z>>
           present == {k \in 1 .. 6 : side[k] # NoChunk}
           cache == [c \in {ProbeCoord} \cup {n[k] : k \in present} |->
                        IF c = ProbeCoord THEN CachedLightData_from_chunk(probe.chunk)
                        ELSE CachedLightData_from_chunk(
                                 side[CHOOSE k \in present : n[k] = c])]
       IN  \E plain \in {create_chunk_mesh(probe.chunk)} :
              probe' = [probe EXCEPT
                           !.built = TRUE,
                           !.plain = plain,
                           !.buffers = MeshBuffers(plain),
                           !.live = create_chunk_mesh_with_sky_light(probe.chunk,
                                        probe.neighbors, probe.sky),
                           !.cached = create_chunk_mesh_with_cache(probe.chunk, ProbeCoord,
                                          cache, probe.sky)]
    /\ UNCHANGED <<player_chunk, scheduled, loaded_chunks, loading_chunks, tasks, chunks,
                   needs_remesh, sky_light_level, chunk_sky_light, meshes, edits,
                   sky_changes, last_op>>

SpecMesh == InitMesh /\ [][BuildMeshes]_vars

----------------------------------------------------------------------------
(* generate_chunk on chunk coordinates around the origin, below and above  *)
(* the terrain                                                             *)

InitTerrain ==
    /\ InitWorld
    /\ scheduled = {}
    /\ \E coord \in {<<x, y, z>> : x \in -1 .. 1, y \in -2 .. 4, z \in -1 .. 1} :
          probe = [coord |-> coord, chunk |-> NoChunk, mesh |-> NoMesh]

\* one generation task, run from start to end with the ids of the vanilla blocks
GenerateOne ==
    /\ probe.chunk = NoChunk
    /\ \E r \in {generate_chunk(probe.coord, WORLD_SEED, GRASS_ID, DIRT_ID, STONE_ID,
                                BEDROCK_ID)} :
          probe' = [coord |-> r.coord, chunk |-> r.chunk, mesh |-> r.mesh]
    /\ UNCHANGED <<player_chunk, scheduled, loaded_chunks, loading_chunks, tasks, chunks,
                   needs_remesh, sky_light_level, chunk_sky_light, meshes, edits,
                   sky_changes, last_op>>

SpecTerrain == InitTerrain /\ [][GenerateOne]_vars

----------------------------------------------------------------------------
(* Streaming around a camera at rest, with every task run by the pool      *)

\* the pool runs every task the spawn loops can dispatch around the camera
InitLoad ==
    /\ InitWorld
    /\ scheduled = SpawnLoop(SpawnChunk, {}, {}, <<>>).loading
    /\ probe = NoChunk

\* some ChunkTask is ready to be integrated: process_chunk_tasks can act
TaskReady == \E i \in 1 .. Len(tasks) : tasks[i].pc = "done"

\* the pool can run a task: one is in its second half, or one is queued and a
\* worker is free
PoolCanRun ==
    \E i \in 1 .. Len(tasks) :
        \/ tasks[i].pc = "filled"
        \/ tasks[i].pc = "queued" /\ tasks[i].coord \in scheduled
                                  /\ Cardinality(Running) < Workers

\* the game is not paused, so both streaming systems run in every frame, and
\* the pool keeps running the tasks it holds. The weak fairness of the
\* integration and of the pool is written out, WF_vars(A) being
\* []<>~ENABLED <<A>>_vars \/ []<><<A>>_vars, with the guard of A for ENABLED
SpecLoad ==
    /\ InitLoad
    /\ [][Generation]_vars
    /\ WF_vars(spawn_chunks_around_player)
    /\ ([]<>(~TaskReady) \/ []<><<process_chunk_tasks>>_vars)
    /\ ([]<>(~PoolCanRun)
           \/ []<><<\E i \in 1 .. Len(tasks) : TaskFill(i) \/ TaskLight(i)>>_vars)

----------------------------------------------------------------------------
(* Streaming around a moving camera, with the remesh batch in between      *)

SpecRemesh == InitStream /\ [][Streaming \/ remesh_modified_chunks]_vars

----------------------------------------------------------------------------
(* Day and night around a camera at rest: the sky level changes, the sweep *)
(* marks stale chunks and the remesh batch runs in every frame             *)

\* update_stale_chunk_lighting runs in Update and remesh_modified_chunks in
\* PostUpdate of every frame. The weak fairness of the remesh batch is written
\* out, WF_vars(A) being []<>~ENABLED <<A>>_vars \/ []<><<A>>_vars, with the
\* guard of the batch (a loaded chunk carries NeedsRemesh) for ENABLED
SpecSky ==
    /\ InitStream
    /\ [][\/ Generation
          \/ \E new_level \in MOONLIGHT_LEVEL .. MAX_LIGHT_LEVEL :
                update_sky_light_level(new_level)
          \/ \E marked \in SUBSET StaleCandidates : update_stale_chunk_lighting(marked)
          \/ remesh_modified_chunks]_vars
    /\ WF_vars(\E marked \in SUBSET StaleCandidates : update_stale_chunk_lighting(marked))
    /\ ([]<>(needs_remesh \cap loaded_chunks = {}) \/ []<><<remesh_modified_chunks>>_vars)

----------------------------------------------------------------------------
(* World positions as f32 and the chunk coordinates computed from them     *)
(* (world/chunk.rs, systems/block_interaction.rs)                          *)

F32_BITS == 8       \* bits of the significand of a float (24 in an f32)

\* the float nearest to n / d, ties to even, as <<numerator, power of two>>:
\* what "as f32" and every f32 operation do to their exact result
F32Round(n, d) ==
    IF n = 0 THEN <<0, 1>>
    ELSE LET a == Abs(n)
             k == CHOOSE j \in -4 .. 2 * F32_BITS :
                     /\ IF j >= 0 THEN (2 ^ j) * d <= a ELSE d <= a * (2 ^ (-j))
                     /\ IF j + 1 >= 0 THEN (2 ^ (j + 1)) * d > a ELSE d > a * (2 ^ (-j - 1))
             e == k - (F32_BITS - 1)
             tn == IF e >= 0 THEN a ELSE a * (2 ^ (-e))
             td == IF e >= 0 THEN d * (2 ^ e) ELSE d
             fl == tn \div td
             r == tn % td
             m == IF 2 * r < td THEN fl
                  ELSE IF 2 * r > td THEN fl + 1
                  ELSE IF fl % 2 = 0 THEN fl ELSE fl + 1
         IN  IF e >= 0 THEN <<(IF n < 0 THEN -1 ELSE 1) * m * (2 ^ e), 1>>
             ELSE <<(IF n < 0 THEN -1 ELSE 1) * m, 2 ^ (-e)>>

\* one axis of ChunkCoord::from_world_pos: "(pos.x / CHUNK_SIZE as f32).floor() as i32"
from_world_pos_f32(pos) ==
    The({ q[1] \div q[2] : q \in {F32Round(pos[1], pos[2] * CHUNK_SIZE)} })

\* one axis of ChunkCoord::to_world_pos: "self.x as f32 * CHUNK_SIZE as f32"
to_world_pos_f32(c) ==
    The({ F32Round(f[1] * CHUNK_SIZE, f[2]) : f \in {F32Round(c, 1)} })

\* one coordinate goes through one of three computations: the round trip of a
\* chunk coordinate; the local coordinate of a placement at block position v
\* (from_world_pos of "v as f32 + 0.5"); the local coordinate of a raycast
\* sample at the float nearest to v / 2 (block_pos is its floor)
CoordStep ==
    /\ ~probe.done
    /\ probe' =
          [probe EXCEPT
              !.done = TRUE,
              !.chunk =
                  IF probe.kind = "roundtrip"
                  THEN from_world_pos_f32(to_world_pos_f32(probe.v))
                  ELSE IF probe.kind = "place"
                  THEN The({ from_world_pos_f32(F32Round(2 * b[1] + b[2], 2 * b[2])) :
                             b \in {F32Round(probe.v, 1)} })
                  ELSE from_world_pos_f32(F32Round(probe.v, 2)),
              !.block =
                  IF probe.kind = "raycast"
                  THEN The({ c[1] \div c[2] : c \in {F32Round(probe.v, 2)} })
                  ELSE probe.v]
    /\ UNCHANGED <<player_chunk, scheduled, loaded_chunks, loading_chunks, tasks, chunks,
                   needs_remesh, sky_light_level, chunk_sky_light, meshes, edits,
                   sky_changes, last_op>>

InitCoord ==
    /\ InitWorld
    /\ scheduled = {}
    /\ \E kind \in {"roundtrip", "place", "raycast"},
          v \in -(2 ^ (F32_BITS + 1)) .. 2 ^ (F32_BITS + 1) :
          probe = [kind |-> kind, v |-> v, done |-> FALSE, chunk |-> 0, block |-> 0]

SpecCoord == InitCoord /\ [][CoordStep]_vars

----------------------------------------------------------------------------
(* The block registry (blocks/registry.rs) and the block properties the    *)
(* mesh builder reads from it                                              *)

\* u16::MAX, the id at which register_block reports a full registry
\* (source: 65535)
U16_MAX == 4

\* Option::None for a slot of "blocks: Vec<Option<BlockType>>"
NoBlockType == [none |-> TRUE]

WHITE == <<1, 1, 1>>
GREEN == <<0, 1, 0>>

\* BlockType values handed to register_block: textures and tint_colors are
\* indexed like Dirs (top, bottom, south, north, east, west); a missing
\* side_overlay or tint is NoBlockType
BlockTypes ==
    LET plain(id, solid, cell) ==
            [id |-> id, solid |-> solid, textures |-> [d \in 1 .. 6 |-> cell],
             side_overlay |-> NoBlockType, tint_colors |-> [d \in 1 .. 6 |-> NoBlockType]]
    IN  { plain("core:air", FALSE, <<0, 0>>),
          plain("core:stone", TRUE, <<1, 0>>),
          plain("core:stone", TRUE, <<5, 5>>),
          plain("core:dirt", TRUE, <<2, 0>>),
          plain("core:glass", FALSE, <<4, 0>>),
          [id |-> "core:grass", solid |-> TRUE,
           textures |-> [d \in 1 .. 6 |-> IF d = 1 THEN <<0, 0>>
                                          ELSE IF d = 2 THEN <<2, 0>> ELSE <<3, 0>>],
           side_overlay |-> <<6, 2>>,
           tint_colors |-> [d \in 1 .. 6 |-> IF d = 1 THEN GREEN ELSE NoBlockType]] }

\* faulty variant: the string id is never entered into id_map
register_block_unmapped(registry, block_type) ==
    IF registry.next_id = U16_MAX
    THEN [registry |-> registry, result |-> [ok |-> FALSE, err |-> "full"]]
    ELSE [registry |-> [registry EXCEPT !.next_id = @ + 1,
                                        !.blocks[registry.next_id] = block_type],
          result |-> [ok |-> TRUE, id |-> registry.next_id]]

\* faulty variant: a string id that is already registered is registered again
register_block_again(registry, block_type) ==
    IF registry.next_id = U16_MAX
    THEN [registry |-> registry, result |-> [ok |-> FALSE, err |-> "full"]]
    ELSE [registry |-> [blocks |-> [registry.blocks EXCEPT ![registry.next_id] = block_type],
                        id_map |-> [s \in DOMAIN registry.id_map \cup {block_type.id} |->
                                       IF s = block_type.id THEN registry.next_id
                                       ELSE registry.id_map[s]],
                        next_id |-> registry.next_id + 1],
          result |-> [ok |-> TRUE, id |-> registry.next_id]]

\* BlockRegistry::register_block: [registry, result]
register_block(registry, block_type) ==
    LET string_id == block_type.id
    IN  IF string_id \in DOMAIN registry.id_map
        THEN [registry |-> registry, result |-> [ok |-> FALSE, err |-> "registered"]]
        ELSE IF registry.next_id = U16_MAX
        THEN [registry |-> registry, result |-> [ok |-> FALSE, err |-> "full"]]
        ELSE LET block_id == registry.next_id
             IN  [registry |->
                      [blocks |-> [registry.blocks EXCEPT ![block_id] = block_type],
                       id_map |-> [s \in DOMAIN registry.id_map \cup {string_id} |->
                                      IF s = string_id THEN block_id
                                      ELSE registry.id_map[s]],
                       next_id |-> (registry.next_id + 1) % (U16_MAX + 1)],
                  result |-> [ok |-> TRUE, id |-> block_id]]

\* BlockRegistry::default (and new): the empty registry with core:air
\* registered by register_block
BlockRegistry_default ==
    register_block([blocks |-> [i \in 0 .. U16_MAX |-> NoBlockType],
                    id_map |-> <<>>, next_id |-> 0],
                   CHOOSE b \in BlockTypes : b.id = "core:air").registry

\* BlockRegistry::get_block: Option<&BlockType>
BlockRegistry_get_block(registry, id) ==
    IF id \in DOMAIN registry.blocks THEN registry.blocks[id] ELSE NoBlockType

\* BlockRegistry::get_id: Option<BlockId>, Some(id) as [id |-> id]
get_id(registry, string_id) ==
    IF string_id \in DOMAIN registry.id_map
    THEN [id |-> registry.id_map[string_id]]
    ELSE NoBlockType

block_count(registry) == registry.next_id

\* faulty variant: a block without registry entry is drawn like block 0
FaceColor_of_air(registry, block_id, d) ==
    [uv |-> [cell |-> registry.blocks[0].textures[d], padded |-> TRUE],
     overlay |-> NoBlockType, tint |-> GREEN]

\* what create_chunk_mesh_with_sky_light reads from the registry for face d
\* (indexed like Dirs) of a voxel holding block_id: the texture cell of "uvs",
\* the overlay cell of "uv2s" and the tint of "colors"
FaceColor(registry, block_id, d) ==
    LET block_type == BlockRegistry_get_block(registry, block_id)
        found == block_type # NoBlockType
        side_overlay == IF found THEN block_type.side_overlay ELSE NoBlockType
        has_overlay == d > 2 /\ side_overlay # NoBlockType
        tint_of(e) == IF found /\ block_type.tint_colors[e] # NoBlockType
                      THEN block_type.tint_colors[e] ELSE WHITE
    IN  [uv |-> IF found THEN [cell |-> block_type.textures[d], padded |-> TRUE]
                ELSE [cell |-> <<0, 0>>, padded |-> FALSE],
         overlay |-> IF has_overlay THEN side_overlay ELSE NoBlockType,
         tint |-> IF has_overlay THEN tint_of(1) ELSE tint_of(d)]

\* one call on the registry: register_block with any block type, or
\* create_chunk_mesh of a chunk whose first two voxels hold any two ids
RegistryStep ==
    /\ \/ \E block_type \in BlockTypes :
             \E r \in {register_block(probe.registry, block_type)} :
                probe' = [registry |-> r.registry, op |-> "register",
                          block_type |-> block_type, result |-> r.result,
                          log |-> IF r.result.ok
                                  THEN Append(probe.log, [string_id |-> block_type.id,
                                                          id |-> r.result.id])
                                  ELSE probe.log,
                          blocks |-> [v \in Voxels |-> AIR], mesh |-> {}]
       \/ \E a \in 0 .. U16_MAX, b \in 0 .. U16_MAX :
             \E blocks \in {[v \in Voxels |-> IF v = 0 THEN a ELSE IF v = 1 THEN b ELSE AIR]} :
                probe' = [probe EXCEPT
                             !.op = "mesh", !.block_type = NoBlockType,
                             !.result = NoBlockType, !.blocks = blocks,
                             !.mesh =
                                 { [voxel |-> f.voxel, dir |-> f.dir,
                                    color |-> FaceColor(probe.registry, blocks[f.voxel],
                                                 CHOOSE d \in 1 .. 6 : Dirs[d] = f.dir)] :
                                   f \in create_chunk_mesh(
                                            [ChunkNew(ProbeCoord) EXCEPT !.blocks = blocks]) }]
    /\ UNCHANGED <<player_chunk, scheduled, loaded_chunks, loading_chunks, tasks, chunks,
                   needs_remesh, sky_light_level, chunk_sky_light, meshes, edits,
                   sky_changes, last_op>>

InitRegistry ==
    /\ InitWorld
    /\ scheduled = {}
    /\ probe = [registry |-> BlockRegistry_default, op |-> "new", block_type |-> NoBlockType,
                result |-> NoBlockType, log |-> <<>>,
                blocks |-> [v \in Voxels |-> AIR], mesh |-> {}]

SpecRegistry == InitRegistry /\ [][RegistryStep]_vars

----------------------------------------------------------------------------
(* The reset pass of an all-air chunk under every stack of snapshotted     *)
(* chunks above it                                                         *)

\* calculate_skylight_with_cache on the chunk, and the verdict of its shadow
\* test on each column
ShadowStep ==
    /\ ~probe.done
    /\ probe' = [probe EXCEPT
                    !.done = TRUE,
                    !.shadowed = { xz \in Axis \X Axis :
                                     is_column_shadowed(xz[1], xz[2], ProbeCoord, probe.cache) },
                    !.chunk = calculate_skylight_with_cache(probe.chunk, ProbeCoord,
                                                            probe.cache)]
    /\ UNCHANGED <<player_chunk, scheduled, loaded_chunks, loading_chunks, tasks, chunks,
                   needs_remesh, sky_light_level, chunk_sky_light, meshes, edits,
                   sky_changes, last_op>>

\* the chunk dy above ProbeCoord is missing from the snapshot, all air, or
\* carries one block in its corner column; the stack reaches one chunk past
\* the trace
InitShadow ==
    /\ InitWorld
    /\ scheduled = {}
    /\ \E above \in [1 .. SHADOW_TRACE_CHUNKS + 1 -> {"missing", "air", "roof"}] :
          probe = [cache |->
                      [c \in {<<0, dy, 0>> : dy \in {e \in DOMAIN above : above[e] # "missing"}}
                       |-> CachedLightData_from_chunk(
                               IF above[c[2]] = "air" THEN ChunkNew(c)
                               ELSE calculate_skylight(
                                        set_block(ChunkNew(c), 0, 0, 0, STONE_ID)))],
                   done |-> FALSE, shadowed |-> {}, chunk |-> ChunkNew(ProbeCoord)]

SpecShadow == InitShadow /\ [][ShadowStep]_vars

----------------------------------------------------------------------------
(* The remesh batch over a layer of loaded chunks around the viewpoint     *)

\* a layer of generated chunks and one chunk on top of it are loaded, any of
\* them carry NeedsRemesh, and the camera is in one of three of them
SpecPriority ==
    /\ player_chunk \in {<<-1, 0, 0>>, <<1, 0, 1>>, <<0, 1, 0>>}
    /\ scheduled = {}
    /\ loading_chunks = {}
    /\ tasks = <<>>
    /\ sky_light_level = MAX_LIGHT_LEVEL
    /\ edits = 0
    /\ sky_changes = 0
    /\ last_op = [op |-> "init", coords |-> {}, clean |-> FALSE]
    /\ probe = NoChunk
    /\ \E layer \in {{<<x, 0, z>> : x \in -1 .. 1, z \in 0 .. 1} \cup {<<0, 1, 0>>}} :
       \E g \in {[c \in layer |-> generate_chunk(c, WORLD_SEED, GRASS_ID, DIRT_ID, STONE_ID,
                                                 BEDROCK_ID)]} :
          /\ loaded_chunks = layer
          /\ chunks = [c \in layer |-> g[c].chunk]
          /\ meshes = [c \in layer |-> g[c].mesh]
          /\ chunk_sky_light = [c \in layer |-> MAX_LIGHT_LEVEL]
          /\ needs_remesh \in SUBSET layer
    /\ [][remesh_modified_chunks]_vars

----------------------------------------------------------------------------
(* The flood-fill loops, one sweep pair at a time                          *)

\* the chunk a flood-fill loop starts on: any air/stone content, as the reset of
\* its own pass leaves it against the neighbour data (pass 0), or, for
\* propagate_light_from_cache in a later pass, as a cross-chunk pass against an
\* earlier snapshot left it; and the loop that runs on it
InitFlood ==
    /\ InitWorld
    /\ scheduled = {}
    /\ \E blocks \in [Voxels -> ProbeBlocks], env \in ProbeEnvs,
          kind \in {"calculate_skylight_with_neighbors", "propagate_light_from_cache"} :
          \E start \in IF kind = "calculate_skylight_with_neighbors"
                        THEN {SeedLive([ChunkNew(ProbeCoord) EXCEPT !.blocks = blocks],
                                       NeighborLightDataOf(env, ProbeCoord), 0)}
                        ELSE {SeedCache([ChunkNew(ProbeCoord) EXCEPT !.blocks = blocks],
                                        ProbeCoord, CacheOf(env), 0)}
                             \cup {calculate_skylight_with_cache(
                                       [ChunkNew(ProbeCoord) EXCEPT !.blocks = blocks],
                                       ProbeCoord, CacheOf(before)) : before \in ProbeEnvs} :
              probe = [kind |-> kind, env |-> env, start |-> start, chunk |-> start,
                       iteration |-> 0, any_change |-> FALSE, running |-> TRUE]

\* faulty variant: the range of the loop is cut short, it returns after the cap
\* of its first round without sweeping
FloodIteration_cut ==
    /\ probe.running
    /\ probe.iteration < CHUNK_SIZE * 2
    /\ probe' = [probe EXCEPT !.iteration = probe.iteration + 1, !.running = FALSE]
    /\ UNCHANGED <<player_chunk, scheduled, loaded_chunks, loading_chunks, tasks, chunks,
                   needs_remesh, sky_light_level, chunk_sky_light, meshes, edits,
                   sky_changes, last_op>>

\* faulty variant: the loop has no "if !any_change { break; }"
FloodIteration_capped ==
    /\ probe.running
    /\ probe.iteration < CHUNK_SIZE * 2
    /\ \E b \in {IF probe.kind = "calculate_skylight_with_neighbors"
                 THEN The({ SweepLive(f.chunk, NeighborLightDataOf(probe.env, ProbeCoord),
                                      NVOX - 1, -1, f.changed) :
                            f \in {SweepLive(probe.chunk,
                                             NeighborLightDataOf(probe.env, ProbeCoord),
                                             0, 1, FALSE)} })
                 ELSE The({ SweepCache(f.chunk, ProbeCoord, CacheOf(probe.env),
                                       NVOX - 1, -1, f.changed) :
                            f \in {SweepCache(probe.chunk, ProbeCoord, CacheOf(probe.env),
                                              0, 1, FALSE)} })} :
          probe' = [probe EXCEPT
                       !.chunk = b.chunk,
                       !.any_change = b.changed,
                       !.iteration = probe.iteration + 1,
                       !.running = probe.iteration + 1 < CHUNK_SIZE * 2]
    /\ UNCHANGED <<player_chunk, scheduled, loaded_chunks, loading_chunks, tasks, chunks,
                   needs_remesh, sky_light_level, chunk_sky_light, meshes, edits,
                   sky_changes, last_op>>

\* one round of "for _iteration in 0..(CHUNK_SIZE * 2)": the forward sweep, the
\* backward sweep, "if !any_change { break; }", and the end of the range
FloodIteration ==
    /\ probe.running
    /\ probe.iteration < CHUNK_SIZE * 2
    /\ \E b \in {IF probe.kind = "calculate_skylight_with_neighbors"
                 THEN The({ SweepLive(f.chunk, NeighborLightDataOf(probe.env, ProbeCoord),
                                      NVOX - 1, -1, f.changed) :
                            f \in {SweepLive(probe.chunk,
                                             NeighborLightDataOf(probe.env, ProbeCoord),
                                             0, 1, FALSE)} })
                 ELSE The({ SweepCache(f.chunk, ProbeCoord, CacheOf(probe.env),
                                       NVOX - 1, -1, f.changed) :
                            f \in {SweepCache(probe.chunk, ProbeCoord, CacheOf(probe.env),
                                              0, 1, FALSE)} })} :
          probe' = [probe EXCEPT
                       !.chunk = b.chunk,
                       !.any_change = b.changed,
                       !.iteration = probe.iteration + 1,
                       !.running = b.changed /\ probe.iteration + 1 < CHUNK_SIZE * 2]
    /\ UNCHANGED <<player_chunk, scheduled, loaded_chunks, loading_chunks, tasks, chunks,
                   needs_remesh, sky_light_level, chunk_sky_light, meshes, edits,
                   sky_changes, last_op>>

\* the loop is straight-line code: a round that can run does run
SpecFlood == InitFlood /\ [][FloodIteration]_vars /\ WF_vars(FloodIteration)

----------------------------------------------------------------------------
(* remesh_modified_chunks on four chunks that meet in a vertical edge, as   *)
(* edits left them                                                         *)

\* the four chunks around the edge x = z = CHUNK_SIZE of layer 0, each with the
\* column of it that touches the edge
SeamColumn ==
    (<<0, 0, 0>> :> <<CHUNK_SIZE - 1, CHUNK_SIZE - 1>>)
    @@ (<<1, 0, 0>> :> <<0, CHUNK_SIZE - 1>>)
    @@ (<<1, 0, 1>> :> <<0, 0>>)
    @@ (<<0, 0, 1>> :> <<CHUNK_SIZE - 1, 0>>)

\* block arrays of a chunk at the edge: all stone, stone with an air pocket at
\* the foot of the edge column, stone with the edge column dug out, all air
SeamBlocks(c) ==
    { [v \in Voxels |-> STONE_ID],
      [v \in Voxels |-> IF XOf(v) = SeamColumn[c][1] /\ ZOf(v) = SeamColumn[c][2] /\ YOf(v) = 0
                        THEN AIR ELSE STONE_ID],
      [v \in Voxels |-> IF XOf(v) = SeamColumn[c][1] /\ ZOf(v) = SeamColumn[c][2]
                        THEN AIR ELSE STONE_ID],
      [v \in Voxels |-> AIR] }

\* the four chunks loaded, each lit on its own as generation and block_interaction
\* leave a chunk, and all of them still marked
InitSeam ==
    /\ player_chunk = <<0, 0, 0>>
    /\ scheduled = {}
    /\ loading_chunks = {}
    /\ tasks = <<>>
    /\ sky_light_level = MAX_LIGHT_LEVEL
    /\ edits = 0
    /\ sky_changes = 0
    /\ last_op = [op |-> "init", coords |-> {}, clean |-> FALSE]
    /\ probe = NoChunk
    /\ loaded_chunks = DOMAIN SeamColumn
    /\ \E a \in SeamBlocks(<<0, 0, 0>>), b \in SeamBlocks(<<1, 0, 0>>),
          c \in SeamBlocks(<<1, 0, 1>>), d \in SeamBlocks(<<0, 0, 1>>) :
       \E blocks \in {(<<0, 0, 0>> :> a) @@ (<<1, 0, 0>> :> b)
                       @@ (<<1, 0, 1>> :> c) @@ (<<0, 0, 1>> :> d)} :
          /\ chunks = [e \in DOMAIN SeamColumn |-> EditedChunk(e, blocks[e])]
          /\ meshes = [e \in DOMAIN SeamColumn |->
                          create_chunk_mesh(EditedChunk(e, blocks[e]))]
    /\ chunk_sky_light = [c \in DOMAIN SeamColumn |-> MAX_LIGHT_LEVEL]
    /\ needs_remesh = DOMAIN SeamColumn

SpecSeam == InitSeam /\ [][remesh_modified_chunks]_vars

----------------------------------------------------------------------------
----------------------------------------------------------------------------
(* Day and night over the ring of chunks around an edge: more chunks carry *)
(* NeedsRemesh than one batch takes                                        *)

MarksStep ==
    \/ \E new_level \in MOONLIGHT_LEVEL .. MAX_LIGHT_LEVEL :
          update_sky_light_level(new_level)
    \/ \E marked \in SUBSET StaleCandidates : update_stale_chunk_lighting(marked)
    \/ remesh_modified_chunks

\* the four chunks are loaded, lit in isolation, meshed and marked; two of
\* them opposite each other are all air
InitMarks ==
    /\ player_chunk = <<0, 0, 0>>
    /\ scheduled = {}
    /\ loading_chunks = {}
    /\ tasks = <<>>
    /\ sky_light_level = MAX_LIGHT_LEVEL
    /\ edits = 0
    /\ sky_changes = 0
    /\ last_op = [op |-> "init", coords |-> {}, clean |-> FALSE]
    /\ probe = NoChunk
    /\ loaded_chunks = DOMAIN SeamColumn
    /\ \E a \in SeamBlocks(<<0, 0, 0>>), c \in SeamBlocks(<<1, 0, 1>>) :
       \E blocks \in {(<<0, 0, 0>> :> a) @@ (<<1, 0, 0>> :> [v \in Voxels |-> AIR])
                       @@ (<<1, 0, 1>> :> c) @@ (<<0, 0, 1>> :> [v \in Voxels |-> AIR])} :
          /\ chunks = [e \in DOMAIN SeamColumn |-> EditedChunk(e, blocks[e])]
          /\ meshes = [e \in DOMAIN SeamColumn |->
                          create_chunk_mesh(EditedChunk(e, blocks[e]))]
    /\ chunk_sky_light = [c \in DOMAIN SeamColumn |-> MAX_LIGHT_LEVEL]
    /\ needs_remesh = DOMAIN SeamColumn

\* remesh_modified_chunks runs in PostUpdate of every frame: weak fairness,
\* written out with the guard of the batch (a loaded chunk carries
\* NeedsRemesh) for ENABLED
SpecMarks ==
    /\ InitMarks
    /\ [][MarksStep]_vars
    /\ ([]<>(needs_remesh \cap loaded_chunks = {}) \/ []<><<remesh_modified_chunks>>_vars)

(* block_interaction on a chunk with any of its face neighbours loaded     *)

EditCenter == <<0, 2, 0>>

\* block arrays of the chunk the ray hits
EditBlocks ==
    { [v \in Voxels |-> IF XOf(v) = CHUNK_SIZE - 1 THEN STONE_ID ELSE AIR],
      [v \in Voxels |-> IF v = 0 THEN BEDROCK_ID ELSE IF XOf(v) = 0 THEN DIRT_ID ELSE AIR] }

\* the sets of loaded face neighbours of the chunk of the hit
EditAround ==
    { NeighborSet(EditCenter),
      {neighbor_coords(EditCenter)[1], neighbor_coords(EditCenter)[3],
       neighbor_coords(EditCenter)[5]},
      {neighbor_coords(EditCenter)[2], neighbor_coords(EditCenter)[4],
       neighbor_coords(EditCenter)[6]} }

\* the chunk of the hit and a set of loaded face neighbours, all of air
InitEdit ==
    /\ player_chunk = SpawnChunk
    /\ scheduled = {}
    /\ loading_chunks = {}
    /\ tasks = <<>>
    /\ needs_remesh = {}
    /\ sky_light_level = MAX_LIGHT_LEVEL
    /\ edits = 0
    /\ sky_changes = 0
    /\ last_op = [op |-> "init", coords |-> {}, clean |-> FALSE]
    /\ probe = NoChunk
    /\ \E around \in EditAround, blocks \in EditBlocks :
          /\ loaded_chunks = {EditCenter} \cup around
          /\ chunks = [c \in {EditCenter} \cup around |->
                          IF c = EditCenter THEN EditedChunk(c, blocks)
                          ELSE EditedChunk(c, [v \in Voxels |-> AIR])]
          /\ meshes = [c \in {EditCenter} \cup around |->
                          IF c = EditCenter
                          THEN create_chunk_mesh(EditedChunk(c, blocks))
                          ELSE NoMesh]
          /\ chunk_sky_light = [c \in {EditCenter} \cup around |-> MAX_LIGHT_LEVEL]

\* one frame in which a mouse button was just pressed with the ray on a block
EditFrame ==
    \E c \in loaded_chunks \cap EditTargets, i \in Voxels :
        /\ ~is_air(chunks[c].blocks[i])
        /\ \E k \in EditInputs(c, i), selected_block \in SelectableBlocks :
              block_interaction(c, i, k.face, k.left, k.right, k.creative, selected_block)

SpecEdit == InitEdit /\ [][EditFrame]_vars

----------------------------------------------------------------------------
(* A settled column of chunks, then an edit in the upper chunk or the       *)
(* integration of a chunk above it                                         *)

ColumnLower == <<0, 1, 0>>
ColumnAbove == <<0, 3, 0>>

\* the chunk of the hit over a chunk of air, both lit and meshed by a batch and
\* unmarked; with or without the generation task of the chunk above them queued
InitColumn ==
    /\ player_chunk = SpawnChunk
    /\ sky_light_level = MAX_LIGHT_LEVEL
    /\ edits = 0
    /\ sky_changes = 0
    /\ last_op = [op |-> "init", coords |-> {}, clean |-> FALSE]
    /\ probe = NoChunk
    /\ loaded_chunks = {ColumnLower, EditCenter}
    /\ needs_remesh = {}
    /\ chunk_sky_light = [c \in {ColumnLower, EditCenter} |-> MAX_LIGHT_LEVEL]
    /\ \E blocks \in EditBlocks :
       \E r \in {RemeshResult({ColumnLower, EditCenter},
                              (ColumnLower :> EditedChunk(ColumnLower, [v \in Voxels |-> AIR]))
                              @@ (EditCenter :> EditedChunk(EditCenter, blocks)),
                              {ColumnLower, EditCenter}, MAX_LIGHT_LEVEL)} :
          /\ chunks = r.chunks
          /\ meshes = r.meshes
    /\ \E queued \in BOOLEAN :
          IF queued
          THEN /\ scheduled = {ColumnAbove}
               /\ loading_chunks = {ColumnAbove}
               /\ tasks = <<[pc |-> "queued", coord |-> ColumnAbove, seed |-> WORLD_SEED,
                             ids |-> <<GRASS_ID, DIRT_ID, STONE_ID, BEDROCK_ID>>,
                             chunk |-> NoChunk, mesh |-> NoMesh]>>
          ELSE /\ scheduled = {}
               /\ loading_chunks = {}
               /\ tasks = <<>>

ColumnStep ==
    \/ \E i \in 1 .. Len(tasks) : TaskFill(i)
    \/ \E i \in 1 .. Len(tasks) : TaskLight(i)
    \/ process_chunk_tasks
    \/ EditFrame
    \/ remesh_modified_chunks

SpecColumn == InitColumn /\ [][ColumnStep]_vars

----------------------------------------------------------------------------
(* Properties of the light passes                                          *)

LightOf(chunk) == chunk.light_levels

NoLower(before, after) == \A v \in Voxels : LightOf(after)[v] >= LightOf(before)[v]

LivePassOps == {"calculate_skylight", "calculate_skylight_with_neighbors", "flood"}
CachePassOps == {"calculate_skylight_with_cache", "propagate_light_from_cache"}

\* the neighbour data the last pass on the chunk under test ran against
ProbeNeighbors ==
    IF probe.op = "calculate_skylight" THEN NeighborLightDataNone
    ELSE NeighborLightDataOf(probe.env, ProbeCoord)

\* the light the flood loop of the last pass started from
ProbeFloodStart ==
    IF probe.op \in {"calculate_skylight", "calculate_skylight_with_neighbors"}
    THEN SeedLive(probe.prev, ProbeNeighbors, 0)
    ELSE IF probe.op = "calculate_skylight_with_cache"
    THEN SeedCache(probe.prev, ProbeCoord, CacheOf(probe.env), 0)
    ELSE probe.prev

\* C6: the flood loop of a pass (of calculate_skylight_with_neighbors after
\* seeding, and of propagate_light_from_cache) leaves no voxel with less light
\* than it had when the loop started; and after a pass that left its loop
\* through a sweep pair that changed nothing, one more flood pass against the
\* same neighbour data returns the chunk unchanged.
C6_FloodMonotoneIdempotent ==
    probe.op \in LivePassOps \cup CachePassOps =>
        /\ NoLower(ProbeFloodStart, probe.chunk)
        /\ probe.quiet =>
              IF probe.op \in LivePassOps
              THEN FloodLive(probe.chunk, ProbeNeighbors, 0).chunk = probe.chunk
              ELSE FloodCache(probe.chunk, ProbeCoord, CacheOf(probe.env), 0).chunk
                       = probe.chunk

\* a second flood pass ran after a pass that ended quiet, the chunk holding
\* light that only the flood can have produced
C6_Witness ==
    /\ probe.steps = 2
    /\ probe.op \in {"flood", "propagate_light_from_cache"}
    /\ probe.quiet
    /\ probe.chunk = probe.prev
    /\ \E v \in Voxels : /\ is_air(probe.chunk.blocks[v])
                         /\ LightOf(probe.chunk)[v] > 0
                         /\ LightOf(probe.chunk)[v] < MAX_LIGHT_LEVEL

\* the air voxels with no non-air voxel above them in their column of the chunk
DirectlyLit(blocks) ==
    {v \in Voxels :
        /\ is_air(blocks[v])
        /\ \A y \in Axis : y > YOf(v) => is_air(blocks[index(XOf(v), y, ZOf(v))])}

FaceAdjacent(u, v) ==
    Abs(XOf(u) - XOf(v)) + Abs(YOf(u) - YOf(v)) + Abs(ZOf(u) - ZOf(v)) = 1

\* the air voxels within k face-adjacent steps through air of a voxel of S
RECURSIVE AirBall(_, _, _)
AirBall(blocks, S, k) ==
    IF k = 0 THEN S
    ELSE AirBall(blocks,
                 S \cup {v \in Voxels : is_air(blocks[v]) /\ \E u \in S : FaceAdjacent(u, v)},
                 k - 1)

\* the light C7 states for air voxel v
IsolatedLight(blocks, v) ==
    LET reach == {k \in 0 .. NVOX : v \in AirBall(blocks, DirectlyLit(blocks), k)}
    IN  IF reach = {} THEN 0
        ELSE Max(0, MAX_LIGHT_LEVEL - (CHOOSE d \in reach : \A k \in reach : d <= k))

\* C7: after calculate_skylight on any chunk, an air voxel with only air above
\* it in the chunk stores MAX_LIGHT_LEVEL, and every other air voxel stores
\* max(0, MAX_LIGHT_LEVEL - d), d the length of the shortest face-adjacent path
\* through air voxels of the chunk to such a voxel, and 0 when there is no path.
C7_IsolatedLightIsDistance ==
    probe.op = "calculate_skylight" =>
        \A v \in Voxels :
            is_air(probe.chunk.blocks[v]) =>
                LightOf(probe.chunk)[v] = IsolatedLight(probe.chunk.blocks, v)

\* calculate_skylight ran on a chunk with a lit opening, a voxel one step and a
\* voxel two steps from it
C7_Witness ==
    /\ probe.op = "calculate_skylight"
    /\ \E u, v, w \in Voxels :
          /\ is_air(probe.chunk.blocks[u]) /\ LightOf(probe.chunk)[u] = MAX_LIGHT_LEVEL
          /\ is_air(probe.chunk.blocks[v]) /\ LightOf(probe.chunk)[v] = MAX_LIGHT_LEVEL - 1
          /\ is_air(probe.chunk.blocks[w]) /\ LightOf(probe.chunk)[w] = MAX_LIGHT_LEVEL - 2

AllAir(chunk) == \A v \in Voxels : is_air(chunk.blocks[v])
AllLit(chunk) == \A v \in Voxels : LightOf(chunk)[v] = MAX_LIGHT_LEVEL

\* C8: an all-air chunk with no neighbour above stores MAX_LIGHT_LEVEL in every
\* voxel after the reset+fill pass, run as calculate_skylight or as
\* calculate_skylight_with_cache with no snapshot of the chunk above.
C8_AllAirAllLit ==
    (/\ AllAir(probe.chunk)
     /\ \/ probe.op = "calculate_skylight"
        \/ /\ probe.op = "calculate_skylight_with_cache"
           /\ neighbor_coords(ProbeCoord)[4] \notin DOMAIN probe.env)
    => AllLit(probe.chunk)

\* calculate_skylight ran on an all-air chunk that a roofed pass had left
\* partly dark, and the snapshot pass ran on an all-air chunk with no chunk above
C8_Witness ==
    /\ AllAir(probe.chunk)
    /\ AllLit(probe.chunk)
    /\ \/ probe.op = "calculate_skylight" /\ ~AllLit(probe.prev)
       \/ /\ probe.op = "calculate_skylight_with_cache"
          /\ neighbor_coords(ProbeCoord)[4] \notin DOMAIN probe.env
          /\ DOMAIN probe.env # {}

----------------------------------------------------------------------------
(* Properties of chunk streaming                                           *)

TaskIndexes(c) == {i \in 1 .. Len(tasks) : tasks[i].coord = c}

\* what generate_chunk returns for the inputs task t was dispatched with
Generated(t) ==
    generate_chunk(t.coord, t.seed, t.ids[1], t.ids[2], t.ids[3], t.ids[4])

\* every voxel written by the fill loops, and the isolated light pass run on the result
FullyGenerated(t, chunk) ==
    /\ chunk.blocks = GenerateBlocks(t.coord, t.seed, t.ids[1], t.ids[2], t.ids[3],
                                     t.ids[4]).blocks
    /\ chunk = calculate_skylight(GenerateBlocks(t.coord, t.seed, t.ids[1], t.ids[2],
                                                 t.ids[3], t.ids[4]))

C1_IndexHoldsGenerated ==
    \A c \in loaded_chunks :
        /\ c \in DOMAIN chunks
        /\ c \in DOMAIN meshes
        /\ FullyGenerated([coord |-> c, seed |-> WORLD_SEED,
                           ids |-> <<GRASS_ID, DIRT_ID, STONE_ID, BEDROCK_ID>>], chunks[c])

C1_IntegratedWhole ==
    \A c \in loaded_chunks' \ loaded_chunks :
        \E i \in TaskIndexes(c) :
            /\ tasks[i].pc = "done"
            /\ FullyGenerated(tasks[i], tasks[i].chunk)
            /\ chunks'[c] = tasks[i].chunk
            /\ meshes'[c] = tasks[i].mesh

\* C1: a coordinate enters loaded_chunks only in a step that takes it from a
\* task whose future is ready, i.e. whose chunk has every voxel filled and the
\* isolated sky-light pass run; the step stores that task's chunk and mesh as
\* they are; and while nothing but streaming runs, every chunk of the index is
\* the filled and sky-lit chunk of its coordinate.
C1_IndexedOnlyWhenGenerated ==
    [](C1_IndexHoldsGenerated) /\ [][C1_IntegratedWhole]_vars

\* a chunk with solid and air voxels was integrated, its solid voxels dark and
\* its open air voxels fully lit, while another task was between fill and light
C1_Witness ==
    /\ last_op.op = "process"
    /\ \E c \in last_op.coords :
          /\ \E v \in Voxels : ~is_air(chunks[c].blocks[v]) /\ LightOf(chunks[c])[v] = 0
          /\ \E v \in Voxels :
                is_air(chunks[c].blocks[v]) /\ LightOf(chunks[c])[v] = MAX_LIGHT_LEVEL
    /\ \E i \in 1 .. Len(tasks) : tasks[i].pc = "filled"

C2_LoadingIsOutstanding ==
    /\ loaded_chunks \cap loading_chunks = {}
    /\ \A c \in loading_chunks : Cardinality(TaskIndexes(c)) = 1
    /\ \A i \in 1 .. Len(tasks) : tasks[i].coord \in loading_chunks

C2_NoDuplicateWork ==
    /\ \A c \in loading_chunks' \ loading_chunks : c \notin loaded_chunks
    /\ Len(tasks') > Len(tasks) =>
          \A i \in (Len(tasks) + 1) .. Len(tasks') :
              tasks'[i].coord \notin loaded_chunks \cup loading_chunks
    /\ last_op'.op = "process" => last_op'.coords \cap loaded_chunks = {}
    /\ loaded_chunks \subseteq loaded_chunks'

\* C2: no coordinate is both loading and loaded; a coordinate is loading exactly
\* while one task for it exists; a step that dispatches tasks dispatches them
\* only for coordinates neither loaded nor loading; a step that integrates
\* coordinates integrates none that is already loaded, and the index never
\* loses a coordinate.
C2_OneTaskPerCoordinate ==
    [](C2_LoadingIsOutstanding) /\ [][C2_NoDuplicateWork]_vars

\* the camera has moved and a second dispatch skipped loaded and loading
\* coordinates of its view sphere
C2_Witness ==
    /\ last_op.op = "spawn"
    /\ player_chunk # SpawnChunk
    /\ \E c \in loaded_chunks : distance_squared(c, player_chunk) <= VIEW_DISTANCE * VIEW_DISTANCE
    /\ \E i \in 1 .. Len(tasks) :
          /\ tasks[i].pc # "queued"
          /\ distance_squared(tasks[i].coord, player_chunk) <= VIEW_DISTANCE * VIEW_DISTANCE

\* the tasks of the sequence whose coordinate is not in D, in order
RECURSIVE TasksWithout(_, _)
TasksWithout(ts, D) ==
    IF ts = <<>> THEN <<>>
    ELSE IF Head(ts).coord \in D THEN TasksWithout(Tail(ts), D)
    ELSE <<Head(ts)>> \o TasksWithout(Tail(ts), D)

\* C3: a step of process_chunk_tasks that integrates the coordinates D removes
\* D from loading_chunks, adds D to loaded_chunks with the tasks' chunks, marks
\* NeedsRemesh exactly on D and on the loaded face neighbours of its members
\* (leaving every earlier mark), and discards the tasks of D and no other.
C3_IntegrationStep ==
    [][last_op'.op = "process" =>
          /\ last_op'.coords # {}
          /\ last_op'.coords = {tasks[i].coord : i \in {j \in 1 .. Len(tasks) : tasks[j].pc = "done"}}
          /\ loading_chunks' = loading_chunks \ last_op'.coords
          /\ loaded_chunks' = loaded_chunks \cup last_op'.coords
          /\ \A c \in last_op'.coords :
                \E i \in TaskIndexes(c) : chunks'[c] = tasks[i].chunk
          /\ \A c \in DOMAIN chunks \ last_op'.coords : chunks'[c] = chunks[c]
          /\ needs_remesh' =
                needs_remesh \cup last_op'.coords
                    \cup {n \in UNION {NeighborSet(c) : c \in last_op'.coords} :
                              n \in loaded_chunks'}
          /\ tasks' = TasksWithout(tasks, last_op'.coords)]_vars

\* a chunk was integrated next to a loaded chunk that had been remeshed and
\* carried no mark, and both are marked
C3_Witness ==
    /\ last_op.op = "process"
    /\ \E c \in last_op.coords, n \in loaded_chunks \ last_op.coords :
          /\ n \in NeighborSet(c)
          /\ n \in DOMAIN chunk_sky_light
          /\ {c, n} \subseteq needs_remesh
    /\ Len(tasks) > 0

\* C9: the chunk and mesh a generation task holds are those generate_chunk
\* yields for the task's seed, coordinate and four ids alone, in every state:
\* whatever the index, the other chunks and the sky level hold and whatever
\* ran between the task's steps; and the chunk the index receives is that one.
C9_GenerationDeterministic ==
    /\ \A i \in 1 .. Len(tasks) :
          /\ tasks[i].pc = "filled" =>
                tasks[i].chunk = GenerateBlocks(tasks[i].coord, tasks[i].seed, tasks[i].ids[1],
                                                tasks[i].ids[2], tasks[i].ids[3], tasks[i].ids[4])
          /\ tasks[i].pc = "done" =>
                /\ tasks[i].chunk = Generated(tasks[i]).chunk
                /\ tasks[i].mesh = Generated(tasks[i]).mesh
    /\ last_op.op = "process" =>
          \A c \in last_op.coords :
              chunks[c] = generate_chunk(c, WORLD_SEED, GRASS_ID, DIRT_ID, STONE_ID,
                                         BEDROCK_ID).chunk

\* a task finished its light pass below a loaded chunk that an edit had
\* changed, under a sky level other than the initial one
C9_Witness ==
    /\ edits > 0
    /\ sky_light_level # MAX_LIGHT_LEVEL
    /\ \E i \in 1 .. Len(tasks) :
          /\ tasks[i].pc = "done"
          /\ neighbor_coords(tasks[i].coord)[4] \in loaded_chunks
          /\ chunks[neighbor_coords(tasks[i].coord)[4]] #
                 generate_chunk(neighbor_coords(tasks[i].coord)[4], WORLD_SEED, GRASS_ID,
                                DIRT_ID, STONE_ID, BEDROCK_ID).chunk

----------------------------------------------------------------------------
(* Properties of stored light under generation, edits, sky changes, remesh *)

LightWellFormed(chunk) ==
    \A v \in Voxels :
        /\ LightOf(chunk)[v] \in 0 .. MAX_LIGHT_LEVEL
        /\ ~is_air(chunk.blocks[v]) => LightOf(chunk)[v] = 0

\* the chunks after the first n light passes of the batch remesh_modified_chunks
\* would process now
RECURSIVE PassPrefix(_, _, _, _, _)
PassPrefix(pass, n, order, chs, cache) ==
    IF pass >= n THEN chs
    ELSE LET after == LightPass(pass, order, 1, chs, cache)
         IN  PassPrefix(pass + 1, n, order, after, RefreshCache(cache, order, after))

PendingOrder == EntitiesToProcess(loaded_chunks, chunks, needs_remesh)

\* C5: every chunk of the index, every chunk a finished generation task holds,
\* and every batch chunk after each light pass of the pending remesh batch,
\* stores light within 0 .. MAX_LIGHT_LEVEL in every voxel and 0 in every
\* non-air voxel.
C5_LightInRangeSolidDark ==
    /\ \A c \in loaded_chunks : LightWellFormed(chunks[c])
    /\ \A i \in 1 .. Len(tasks) : tasks[i].pc = "done" => LightWellFormed(tasks[i].chunk)
    /\ \A n \in 1 .. LIGHT_PROPAGATION_PASSES :
          \A c \in Range(PendingOrder) :
              LightWellFormed(
                  PassPrefix(0, n, PendingOrder, chunks,
                             BuildCache(Range(PendingOrder), loaded_chunks, chunks))[c])

\* a remesh batch ran on a chunk in which an edit had put a block where the
\* generator left lit air, and the chunk holds flood-filled light
C5_Witness ==
    /\ last_op.op = "remesh"
    /\ edits > 0
    /\ \E c \in last_op.coords :
          /\ \E v \in Voxels :
                /\ ~is_air(chunks[c].blocks[v])
                /\ is_air(GenerateBlocks(c, WORLD_SEED, GRASS_ID, DIRT_ID, STONE_ID,
                                         BEDROCK_ID).blocks[v])
                /\ LightOf(chunks[c])[v] = 0
          /\ \E v \in Voxels :
                /\ is_air(chunks[c].blocks[v])
                /\ LightOf(chunks[c])[v] \in 1 .. (MAX_LIGHT_LEVEL - 1)

\* the voxel a face looks into, when it lies inside the chunk
FaceTarget(face) ==
    <<XOf(face.voxel) + face.dir[1], YOf(face.voxel) + face.dir[2],
      ZOf(face.voxel) + face.dir[3]>>

\* C10: a step of update_sky_light_level changes the scalar and the marks and
\* no stored light; the remesh batch that runs next, when no chunk was marked
\* before the change, leaves the stored light of its chunks as it was and draws
\* every face with min(stored light, sky level).
C10_SkyChangeKeepsStoredLight ==
    [][/\ last_op'.op = "sky" =>
             /\ chunks' = chunks
             /\ sky_light_level' # sky_light_level
             /\ needs_remesh' = needs_remesh \cup last_op'.coords
       /\ (last_op.op = "sky" /\ last_op.clean /\ last_op'.op = "remesh") =>
             \A c \in last_op'.coords :
                 /\ LightOf(chunks'[c]) = LightOf(chunks[c])
                 /\ \A face \in meshes'[c] :
                       InRange(FaceTarget(face)[1], FaceTarget(face)[2], FaceTarget(face)[3]) =>
                           face.light =
                               Min(get_light(chunks[c], FaceTarget(face)[1], FaceTarget(face)[2],
                                             FaceTarget(face)[3]), sky_light_level)]_vars

----------------------------------------------------------------------------
(* Properties of the remesh batch                                          *)

\* the processing orders of the chunks of a sequence
Orders(order) ==
    {o \in [1 .. Len(order) -> Range(order)] : Range(o) = Range(order)}

\* C4: in every light pass of a batch, processing the batch in any order gives
\* each batch chunk the stored light the pass gave it, and that light is the
\* one the pass computes for the chunk alone against the snapshot: no chunk
\* sees what the pass has already written into another.
C4_PassReadsSnapshot ==
    [][\A o \in Orders(probe.order) :
          /\ LightPass(probe.pass, o, 1, probe.chs, probe.cache) = probe'.chs
          /\ \A i \in 1 .. Len(o) :
                LightPass(probe.pass, <<o[i]>>, 1, probe.chs, probe.cache)[o[i]]
                    = probe'.chs[o[i]]]_vars

\* a pass rewrote the light of both batch chunks, and reading the rewritten
\* chunks instead of the snapshot would have made the two orders disagree
C4_Witness ==
    /\ probe.pass >= 1
    /\ \A c \in Range(probe.order) : probe.chs[c] # probe.prev_chs[c]
    /\ \E o1, o2 \in Orders(probe.order) :
          LightPass_live(probe.pass - 1, o1, 1, probe.prev_chs, probe.prev_cache)
              # LightPass_live(probe.pass - 1, o2, 1, probe.prev_chs, probe.prev_cache)

----------------------------------------------------------------------------
(* Properties of block edits                                               *)

\* the voxels whose block a step changed, as <<chunk, voxel>>
EditedVoxels ==
    { cv \in loaded_chunks \X Voxels : chunks'[cv[1]].blocks[cv[2]] # chunks[cv[1]].blocks[cv[2]] }

\* what an edit of voxel i of chunk c is to mark: c, and the loaded neighbour
\* on each side whose boundary layer the voxel lies in
EditMarks(c, i) ==
    {c} \cup
    { n \in loaded_chunks :
        \/ n = <<c[1] - 1, c[2], c[3]>> /\ XOf(i) = 0
        \/ n = <<c[1] + 1, c[2], c[3]>> /\ XOf(i) = CHUNK_SIZE - 1
        \/ n = <<c[1], c[2] - 1, c[3]>> /\ YOf(i) = 0
        \/ n = <<c[1], c[2] + 1, c[3]>> /\ YOf(i) = CHUNK_SIZE - 1
        \/ n = <<c[1], c[2], c[3] - 1>> /\ ZOf(i) = 0
        \/ n = <<c[1], c[2], c[3] + 1>> /\ ZOf(i) = CHUNK_SIZE - 1 }

C11_Step ==
    last_op'.op = "edit" /\ edits' = edits + 1 =>
        /\ EditedVoxels # {}
        /\ last_op'.coords = UNION { EditMarks(cv[1], cv[2]) : cv \in EditedVoxels }
        /\ needs_remesh' = needs_remesh \cup last_op'.coords

----------------------------------------------------------------------------
(* Properties of the chunk store                                           *)

StoreInRange(x, y, z) == x < CHUNK_SIZE /\ y < CHUNK_SIZE /\ z < CHUNK_SIZE

StoreCells == {c \in (0 .. CHUNK_SIZE) \X (0 .. CHUNK_SIZE) \X (0 .. CHUNK_SIZE) :
                   StoreInRange(c[1], c[2], c[3])}

\* the cell of the last in-range set_block reads back the id written, whatever
\* out-of-range calls and reads were made since
C12_ReadsBack ==
    probe.last_set # <<>> =>
        get_block(probe.chunk, probe.last_set[1], probe.last_set[2], probe.last_set[3])
            = probe.last_set[4]

\* an in-range set_block reads back at once and leaves every other cell; an
\* out-of-range call of any accessor, and any read, leaves every cell
C12_Step ==
    /\ probe'.op = "set_block" /\ StoreInRange(probe'.x, probe'.y, probe'.z) =>
          /\ get_block(probe'.chunk, probe'.x, probe'.y, probe'.z) = probe'.arg
          /\ \A c \in StoreCells \ {<<probe'.x, probe'.y, probe'.z>>} :
                get_block(probe'.chunk, c[1], c[2], c[3]) = get_block(probe.chunk, c[1], c[2], c[3])
    /\ probe'.op \in {"get_block", "get_light"} \/ ~StoreInRange(probe'.x, probe'.y, probe'.z) =>
          \A c \in StoreCells :
              get_block(probe'.chunk, c[1], c[2], c[3]) = get_block(probe.chunk, c[1], c[2], c[3])

\* C12: get_block(x,y,z) after set_block(x,y,z,id) with (x,y,z) in range returns
\* id; set_block changes no other cell; out-of-range reads and writes made in
\* between leave the result unchanged.
C12_SetThenGet == [](C12_ReadsBack) /\ [][C12_Step]_vars

\* an out-of-range write followed an in-range set_block of a non-air block
C12_Witness ==
    /\ probe.last_set # <<>>
    /\ probe.last_set[4] # AIR
    /\ probe.op \in {"set_block", "set_light"}
    /\ ~StoreInRange(probe.x, probe.y, probe.z)

C13_Sizes ==
    /\ Cardinality(DOMAIN probe.chunk.blocks) = CHUNK_SIZE * CHUNK_SIZE * CHUNK_SIZE
    /\ Cardinality(DOMAIN probe.chunk.light_levels) = CHUNK_SIZE * CHUNK_SIZE * CHUNK_SIZE

C13_Step ==
    /\ ~StoreInRange(probe'.x, probe'.y, probe'.z) =>
          /\ probe'.op = "get_block" => probe'.ret = AIR
          /\ probe'.op = "get_light" => probe'.ret = MAX_LIGHT_LEVEL
          /\ probe'.op \in {"set_block", "set_light"} => probe'.chunk = probe.chunk
    /\ probe'.op = "set_light" /\ StoreInRange(probe'.x, probe'.y, probe'.z) =>
          /\ get_light(probe'.chunk, probe'.x, probe'.y, probe'.z)
                = (IF probe'.arg < MAX_LIGHT_LEVEL THEN probe'.arg ELSE MAX_LIGHT_LEVEL)
          /\ probe'.chunk.blocks = probe.chunk.blocks

\* C13: with a coordinate component outside 0..CHUNK_SIZE-1, get_block returns
\* air, get_light returns MAX_LIGHT_LEVEL, and set_block and set_light change
\* nothing; set_light stores min(level, MAX_LIGHT_LEVEL); after any sequence of
\* the four accessors both arrays have CHUNK_SIZE^3 elements.
C13_OutOfRangeAndClamp == [](C13_Sizes) /\ [][C13_Step]_vars

\* a level above the maximum was stored, clamped, in a cell that held less
C13_Witness ==
    /\ probe.op = "set_light"
    /\ StoreInRange(probe.x, probe.y, probe.z)
    /\ probe.arg > MAX_LIGHT_LEVEL
    /\ get_light(probe.prev, probe.x, probe.y, probe.z) < MAX_LIGHT_LEVEL
    /\ get_light(probe.chunk, probe.x, probe.y, probe.z) = MAX_LIGHT_LEVEL


----------------------------------------------------------------------------
(* Properties of the mesh builders                                         *)

\* the non-air voxels of the chunk under the builder
SolidVoxels == {v \in Voxels : ~is_air(probe.chunk.blocks[v])}

\* C14: create_chunk_mesh returns no mesh (zero faces) for a chunk that holds
\* only air, and for a chunk with exactly one non-air voxel and no neighbour
\* chunk it emits exactly six faces, one per axis direction, 24 vertices and
\* 36 indices, wherever in the chunk the voxel lies
C14_AirAndSingleVoxelMesh ==
    probe.built =>
        /\ SolidVoxels = {} =>
              /\ probe.plain = NoMesh
              /\ probe.buffers.positions = 0
              /\ probe.buffers.indices = 0
        /\ Cardinality(SolidVoxels) = 1 =>
              /\ Cardinality(probe.plain) = 6
              /\ \A d \in 1 .. 6 :
                    Cardinality({f \in probe.plain :
                                    f.dir = Dirs[d] /\ f.voxel \in SolidVoxels}) = 1
              /\ probe.buffers.positions = 24
              /\ probe.buffers.indices = 36

C14_Witness ==
    /\ probe.built
    /\ SolidVoxels = {NVOX - 1}
    /\ Cardinality(probe.plain) = 6
    /\ probe.buffers.indices = 36


\* the neighbour a step in direction Dirs[d] leaves the chunk into
SideOf(d) ==
    <<probe.neighbors.pos_y, probe.neighbors.neg_y, probe.neighbors.pos_z,
      probe.neighbors.neg_z, probe.neighbors.pos_x, probe.neighbors.neg_x>>[d]

\* the voxel one step from v in direction Dirs[d] is air: a voxel of the chunk,
\* or the adjacent boundary voxel of the neighbour, or nothing at all
StepIsAir(v, d) ==
    LET x == XOf(v) + Dirs[d][1]
        y == YOf(v) + Dirs[d][2]
        z == ZOf(v) + Dirs[d][3]
    IN  IF InRange(x, y, z) THEN probe.chunk.blocks[index(x, y, z)] = AIR
        ELSE IF SideOf(d) = NoChunk THEN TRUE
        ELSE SideOf(d).blocks[index(x % CHUNK_SIZE, y % CHUNK_SIZE, z % CHUNK_SIZE)] = AIR

HasFace(mesh, v, d) == \E f \in mesh : f.voxel = v /\ f.dir = Dirs[d]

\* C15: a face of voxel v in direction d is emitted, by either builder, iff v
\* is non-air and the voxel one step in d is air, where a step across the chunk
\* boundary reads the adjacent boundary voxel of the neighbour when it is
\* supplied and counts as air when it is not
C15_FaceIffStepIsAir ==
    probe.built =>
        \A v \in Voxels, d \in 1 .. 6 :
            /\ HasFace(probe.live, v, d) <=> (v \in SolidVoxels /\ StepIsAir(v, d))
            /\ HasFace(probe.cached, v, d) <=> (v \in SolidVoxels /\ StepIsAir(v, d))

\* a full chunk between a full neighbour on +x and no neighbour on -x
C15_Witness ==
    /\ probe.built
    /\ SolidVoxels = Voxels
    /\ probe.neighbors.pos_x # NoChunk
    /\ \A v \in Voxels : probe.neighbors.pos_x.blocks[v] # AIR
    /\ probe.neighbors.neg_x = NoChunk
    /\ \A v \in Voxels : ~HasFace(probe.live, v, 5) /\ ~HasFace(probe.cached, v, 5)
    /\ \E v \in Voxels : HasFace(probe.live, v, 6) /\ HasFace(probe.cached, v, 6)


\* C16: for the same chunk, sky level and neighbour data (each of the six
\* neighbours present with given blocks and light, or absent), the builder
\* holding references and the builder reading snapshots emit the same set of
\* faces and the same light level for every face
C16_BuildersAgree == probe.built => probe.live = probe.cached


----------------------------------------------------------------------------
(* Properties of terrain generation                                        *)

\* the block of a column of terrain height h at world height y
ColumnBlock(y, h) ==
    IF y < 0 THEN AIR
    ELSE IF y = 0 THEN BEDROCK_ID
    ELSE IF y > h THEN AIR
    ELSE IF y = h THEN GRASS_ID
    ELSE IF h - 3 <= y /\ y < h THEN DIRT_ID
    ELSE STONE_ID

\* the terrain height of the column of voxel v of the generated chunk
ColumnHeight(v) ==
    get_terrain_height(WORLD_SEED, probe.coord[1] * CHUNK_SIZE + XOf(v),
                       probe.coord[3] * CHUNK_SIZE + ZOf(v))

\* C17: for every chunk coordinate and every column with terrain height h,
\* generate_chunk stores at world height y: air if y < 0, bedrock if y = 0, air
\* if y > h, grass if y = h, dirt if h-3 <= y < h, stone otherwise, the cases
\* tried in that order
C17_ColumnLayers ==
    probe.chunk # NoChunk =>
        \A v \in Voxels :
            probe.chunk.blocks[v] =
                ColumnBlock(probe.coord[2] * CHUNK_SIZE + YOf(v), ColumnHeight(v))

\* a generated chunk that holds bedrock, stone, dirt, grass and air, with a
\* column whose surface is the bedrock layer
C17_Witness ==
    /\ probe.chunk # NoChunk
    /\ {probe.chunk.blocks[v] : v \in Voxels} = {AIR, BEDROCK_ID, STONE_ID, DIRT_ID, GRASS_ID}
    /\ \E v \in Voxels : ColumnHeight(v) = 0 /\ probe.chunk.blocks[v] = BEDROCK_ID


----------------------------------------------------------------------------
(* Properties of streaming around a camera at rest                         *)

\* the view region: the coordinates within the horizontal and the vertical
\* radius whose squared distance to the camera's chunk is within the radius
ViewRegion ==
    { c \in { <<SpawnChunk[1] + dx, SpawnChunk[2] + dy, SpawnChunk[3] + dz>> :
                dx \in -VIEW_DISTANCE .. VIEW_DISTANCE,
                dy \in -VIEW_DISTANCE_VERTICAL .. VIEW_DISTANCE_VERTICAL,
                dz \in -VIEW_DISTANCE .. VIEW_DISTANCE } :
        distance_squared(c, SpawnChunk) <= VIEW_DISTANCE * VIEW_DISTANCE }

\* C18: if the viewpoint stays in one chunk, the game is not paused and every
\* generation task eventually completes, then every coordinate of the view
\* region is eventually in the index of loaded chunks, and once loaded it
\* stays loaded
C18_ViewRegionLoads ==
    /\ <>[](ViewRegion \subseteq loaded_chunks)
    /\ [][loaded_chunks \subseteq loaded_chunks']_vars

C18_Witness ==
    /\ Cardinality(ViewRegion) > 1
    /\ ViewRegion \subseteq loaded_chunks
    /\ tasks = <<>>
    /\ last_op.op = "process"


----------------------------------------------------------------------------
(* Properties of the chunk index                                           *)

\* the coordinates of the tasks whose future is ready
ReadyCoords == {tasks[i].coord : i \in {j \in 1 .. Len(tasks) : tasks[j].pc = "done"}}

C19_Step ==
    /\ loaded_chunks' # loaded_chunks =>
          /\ last_op'.op = "process"
          /\ loaded_chunks \subseteq loaded_chunks'
          /\ loaded_chunks' \ loaded_chunks # {}
          /\ (loaded_chunks' \ loaded_chunks) \subseteq ReadyCoords
    /\ last_op'.op \in {"edit", "remesh", "sky", "stale"} =>
          /\ loaded_chunks' = loaded_chunks
          /\ loading_chunks' = loading_chunks

\* C19: the index loaded_chunks is changed only by process_chunk_tasks, and
\* there only by inserting the coordinate of a completed task; block edits,
\* remesh batches, sky-level updates and the staleness sweep leave the index
\* and the loading set unchanged
C19_IndexChangedByIntegrationOnly == [][C19_Step]_vars

\* after an edit and a change of the sky level, a staleness sweep has run on
\* the index the integration step built
C19_Witness ==
    /\ last_op.op = "stale"
    /\ edits > 0
    /\ sky_changes > 0
    /\ loaded_chunks = EditFocus
    /\ loading_chunks # {}


----------------------------------------------------------------------------
(* Properties of the remesh cap                                            *)

\* the chunks a step takes the dirty mark from
Cleared == needs_remesh \ needs_remesh'

C20_Step ==
    last_op'.op = "remesh" =>
        /\ Cleared # {}
        /\ Cardinality(Cleared) <= MAX_CHUNKS_PER_FRAME
        /\ \A c \in loaded_chunks \ Cleared :
              /\ chunks'[c] = chunks[c]
              /\ meshes'[c] = meshes[c]
              /\ c \in needs_remesh => c \in needs_remesh'

\* C20: one call of remesh_modified_chunks re-lights and remeshes at most
\* MAX_CHUNKS_PER_FRAME dirty chunks (32 in the source); every dirty chunk
\* beyond the cap keeps its dirty mark, and its stored light and mesh are
\* untouched in that tick, so it remains eligible for a later tick
C20_RemeshCap == [][C20_Step]_vars

\* a full batch has been remeshed and a dirty chunk is left for a later tick
C20_Witness ==
    /\ last_op.op = "remesh"
    /\ Cardinality(last_op.coords) = MAX_CHUNKS_PER_FRAME
    /\ needs_remesh \cap loaded_chunks # {}
    /\ needs_remesh \cap last_op.coords = {}


----------------------------------------------------------------------------
(* Properties of the staleness sweep                                       *)

C21_Step ==
    /\ last_op'.op = "stale" =>
          /\ needs_remesh \subseteq needs_remesh'
          /\ (needs_remesh' \ needs_remesh) \subseteq StaleCandidates
          /\ Cardinality(needs_remesh' \ needs_remesh) <= MAX_STALE_PER_FRAME
    /\ last_op'.op = "remesh" =>
          \A c \in needs_remesh \ needs_remesh' :
              c \in DOMAIN chunk_sky_light' /\ chunk_sky_light'[c] = sky_light_level

\* C21: each remeshed chunk records the sky level its mesh was built with; a
\* sweep marks at most MAX_STALE_PER_FRAME chunks (4 in the source), stale ones
\* only; and if the sky level and the viewpoint stop changing, eventually no
\* loaded chunk within the check distance of the viewpoint is left with a
\* missing record or one that differs from the current level
C21_StaleChunksCatchUp ==
    /\ [][C21_Step]_vars
    /\ \/ []<><<player_chunk' # player_chunk>>_vars
       \/ []<><<sky_light_level' # sky_light_level>>_vars
       \/ <>[](StaleCandidates = {})

\* the sweep has just marked as many chunks as its cap allows and left a stale
\* chunk unmarked
C21_Witness ==
    /\ last_op.op = "stale"
    /\ sky_changes > 0
    /\ Cardinality(last_op.coords) = MAX_STALE_PER_FRAME
    /\ StaleCandidates \ needs_remesh # {}


----------------------------------------------------------------------------
(* Properties of the coordinate conversions                                *)

\* the local coordinate the raycast and the edit compute:
\* "block_pos.x - chunk_coord.x * CHUNK_SIZE as i32"
LocalCoord == probe.block - probe.chunk * CHUNK_SIZE

\* C22: from_world_pos(to_world_pos(c)) = c for every chunk coordinate c, and
\* for every integer block position, negative ones included, the local
\* coordinate used by the raycast and by the edit lies in 0 .. CHUNK_SIZE-1
C22_CoordRoundTrip ==
    probe.done =>
        /\ probe.kind = "roundtrip" => probe.chunk = probe.v
        /\ probe.kind \in {"place", "raycast"} => LocalCoord \in 0 .. CHUNK_SIZE - 1


----------------------------------------------------------------------------
(* Frame of a block edit                                                   *)

\* voxels of stored chunks whose block id a step changes
ChangedBlocks ==
    { cv \in (DOMAIN chunks) \X Voxels :
        chunks'[cv[1]].blocks[cv[2]] # chunks[cv[1]].blocks[cv[2]] }

\* C23: a block edit (destroy or place) changes the block id of exactly one
\* voxel of exactly one indexed chunk: a frame changes one voxel to air for its
\* destroy and one voxel from air for its placement, and nothing else; every
\* chunk without an edited voxel keeps its block and light arrays, and no array
\* changes its length
C23_Step ==
    last_op'.op = "edit" /\ edits' # edits =>
        /\ ChangedBlocks # {}
        /\ \A cv \in ChangedBlocks : cv[1] \in loaded_chunks
        /\ Cardinality({ cv \in ChangedBlocks : chunks'[cv[1]].blocks[cv[2]] = AIR }) <= 1
        /\ Cardinality({ cv \in ChangedBlocks : chunks[cv[1]].blocks[cv[2]] = AIR }) <= 1
        /\ \A cv \in ChangedBlocks :
              chunks'[cv[1]].blocks[cv[2]] = AIR \/ chunks[cv[1]].blocks[cv[2]] = AIR
        /\ DOMAIN chunks' = DOMAIN chunks
        /\ \A c \in DOMAIN chunks :
              /\ DOMAIN chunks'[c].blocks = DOMAIN chunks[c].blocks
              /\ DOMAIN chunks'[c].light_levels = DOMAIN chunks[c].light_levels
              /\ (\A i \in Voxels : <<c, i>> \notin ChangedBlocks) =>
                    chunks'[c] = chunks[c]

C23_EditChangesOneVoxel == [][C23_Step]_vars

\* an edit has replaced a block of one chunk while a face neighbour is loaded
C23_Witness ==
    /\ last_op.op = "edit"
    /\ edits > 0
    /\ \E c \in loaded_chunks, n \in loaded_chunks :
          /\ n # c
          /\ c \in last_op.coords
          /\ n \in last_op.coords


----------------------------------------------------------------------------
(* Properties of the block registry                                        *)

\* C25: a new registry holds exactly one block, id 0 = core:air, non-solid;
\* after any sequence of register_block calls the k-th successful registration
\* (logged by the caller) received id k, the next unused one, get_id of its
\* string id returns that id, get_block of that id is present, and block_count
\* is one plus the number of successful registrations
C25_Step ==
    probe'.op = "register" /\ probe'.result.ok =>
        /\ probe'.result.id = block_count(probe.registry)
        /\ BlockRegistry_get_block(probe.registry, probe'.result.id) = NoBlockType
        /\ \A i \in 0 .. probe'.result.id - 1 :
              BlockRegistry_get_block(probe.registry, i) # NoBlockType

C25_RegistryIds ==
    /\ LET new == BlockRegistry_default
       IN  /\ block_count(new) = 1
           /\ {i \in 0 .. U16_MAX : BlockRegistry_get_block(new, i) # NoBlockType} = {0}
           /\ BlockRegistry_get_block(new, AIR).id = "core:air"
           /\ ~BlockRegistry_get_block(new, AIR).solid
           /\ get_id(new, "core:air") = [id |-> AIR]
    /\ [](/\ block_count(probe.registry) = 1 + Len(probe.log)
          /\ \A k \in 1 .. Len(probe.log) :
                /\ probe.log[k].id = k
                /\ get_id(probe.registry, probe.log[k].string_id) = [id |-> k]
                /\ BlockRegistry_get_block(probe.registry, k) # NoBlockType
                /\ BlockRegistry_get_block(probe.registry, k).id = probe.log[k].string_id)
    /\ [][C25_Step]_vars

\* three blocks have been registered after core:air, with failed calls between
C25_Witness ==
    /\ probe.op = "register"
    /\ probe.result.ok
    /\ Len(probe.log) = 3
    /\ probe.result.id = 3

\* C26: register_block with a string id that is already registered returns Err
\* and leaves the registry unchanged: no numeric id is consumed, the existing
\* entry and its id are kept, block_count is unchanged
C26_Step ==
    probe'.op = "register" /\ get_id(probe.registry, probe'.block_type.id) # NoBlockType =>
        /\ ~probe'.result.ok
        /\ probe'.registry = probe.registry
        /\ block_count(probe'.registry) = block_count(probe.registry)
        /\ get_id(probe'.registry, probe'.block_type.id) =
              get_id(probe.registry, probe'.block_type.id)
        /\ \A i \in 0 .. U16_MAX :
              BlockRegistry_get_block(probe'.registry, i) =
                 BlockRegistry_get_block(probe.registry, i)

C26_DuplicateRejected == [][C26_Step]_vars

\* the last call offered core:stone with another texture while core:stone was
\* registered, and was refused
C26_Witness ==
    /\ probe.op = "register"
    /\ ~probe.result.ok
    /\ probe.result.err = "registered"
    /\ probe.block_type.id = "core:stone"
    /\ BlockRegistry_get_block(probe.registry, get_id(probe.registry, "core:stone").id) #
          probe.block_type


\* the stored block id of voxel v of the meshed chunk has no registry entry
Unregistered(v) ==
    /\ ~is_air(probe.blocks[v])
    /\ BlockRegistry_get_block(probe.registry, probe.blocks[v]) = NoBlockType

\* C24: meshing a chunk that stores a non-air block id without registry entry
\* yields a mesh: the voxel's faces are emitted by the same visibility rule as
\* every other non-air voxel's (a face iff the step in its direction leaves
\* the chunk or reaches air), it hides the faces of adjacent voxels turned
\* towards it, and its faces carry the default texture cell (0,0), no overlay
\* and a white tint
C24_UnregisteredBlockMeshes ==
    probe.op = "mesh" =>
        /\ \A f \in probe.mesh : ~is_air(probe.blocks[f.voxel])
        /\ \A v \in Voxels, d \in 1 .. 6 :
              LET x == XOf(v) + Dirs[d][1]
                  y == YOf(v) + Dirs[d][2]
                  z == ZOf(v) + Dirs[d][3]
              IN  /\ ~is_air(probe.blocks[v]) =>
                        (HasFace(probe.mesh, v, d) <=>
                            (~InRange(x, y, z) \/ is_air(probe.blocks[index(x, y, z)])))
                  /\ InRange(x, y, z) /\ Unregistered(index(x, y, z)) =>
                        ~HasFace(probe.mesh, v, d)
        /\ \A f \in probe.mesh :
              Unregistered(f.voxel) =>
                  f.color = [uv |-> [cell |-> <<0, 0>>, padded |-> FALSE],
                             overlay |-> NoBlockType, tint |-> WHITE]

\* a chunk was meshed in which a voxel without registry entry lies next to a
\* registered, textured one
C24_Witness ==
    /\ probe.op = "mesh"
    /\ Unregistered(0)
    /\ ~is_air(probe.blocks[1])
    /\ ~Unregistered(1)
    /\ \E f \in probe.mesh : f.voxel = 0
    /\ \E f \in probe.mesh : f.voxel = 1 /\ f.color.uv.padded


\* C27: a remesh batch runs exactly one reset+fill pass followed by the
\* flood-only passes of the loop (three in the source) over the same chunks; after every pass but the last the
\* snapshot entries of the batch's chunks are replaced by the chunks as the pass
\* left them (so what a pass raised in one batch chunk is what the next pass
\* reads for it), the other entries are kept; a flood-only pass never lowers a
\* stored light value
C27_Step ==
    /\ probe.pass < LIGHT_PROPAGATION_PASSES
    /\ probe'.pass = probe.pass + 1
    /\ probe'.order = probe.order
    /\ DOMAIN probe'.chs = DOMAIN probe.chs
    /\ \A c \in DOMAIN probe.chs :
          probe'.chs[c] =
             IF c \notin Range(probe.order) THEN probe.chs[c]
             ELSE IF probe.pass = 0
             THEN calculate_skylight_with_cache(probe.chs[c], c, probe.cache)
             ELSE propagate_light_from_cache(probe.chs[c], c, probe.cache)
    /\ DOMAIN probe'.cache = DOMAIN probe.cache
    /\ probe.pass < LIGHT_PROPAGATION_PASSES - 1 =>
          \A c \in DOMAIN probe.cache :
              probe'.cache[c] = IF c \in Range(probe.order)
                                THEN CachedLightData_from_chunk(probe'.chs[c])
                                ELSE probe.cache[c]
    /\ probe.pass >= 1 =>
          \A c \in Range(probe.order), v \in Voxels :
              LightOf(probe'.chs[c])[v] >= LightOf(probe.chs[c])[v]

----------------------------------------------------------------------------
(* Properties of the cross-chunk shadow test                               *)

\* a non-air block lies in column (x, z) of the snapshotted chunk dy above the
\* chunk under test
BlockAbove(dy, x, z) ==
    /\ <<0, dy, 0>> \in DOMAIN probe.cache
    /\ \E y \in Axis : ~is_air(cached_get_block(probe.cache[<<0, dy, 0>>], x, y, z))

\* C28: in the reset pass column (x, z) of a chunk is treated as shadowed iff a
\* non-air block lies in column (x, z) of any snapshotted chunk among the 8
\* chunks directly above it; with no such block in the available chunks above,
\* or none available, the column is open to the sky
C28_ColumnShadow ==
    probe.done =>
        \A x \in Axis, z \in Axis :
            <<x, z>> \in probe.shadowed <=>
                \E dy \in 1 .. SHADOW_TRACE_CHUNKS : BlockAbove(dy, x, z)

\* C28 as amended: the column is treated as shadowed iff a non-air block lies
\* in column (x, z) of one of the chunks 1 .. 8 above that the snapshot holds
\* without a gap below it; the top voxel of an open column of an all-air chunk
\* is stored with full light, that of a shadowed column with less
C28_ColumnShadowNoGap ==
    probe.done =>
        \A x \in Axis, z \in Axis :
            /\ <<x, z>> \in probe.shadowed <=>
                  \E dy \in 1 .. SHADOW_TRACE_CHUNKS :
                      /\ \A e \in 1 .. dy : <<0, e, 0>> \in DOMAIN probe.cache
                      /\ BlockAbove(dy, x, z)
            /\ <<x, z>> \in probe.shadowed <=>
                  get_light(probe.chunk, x, CHUNK_SIZE - 1, z) < MAX_LIGHT_LEVEL

\* the reset pass ran under a full stack of snapshotted chunks whose only
\* block lies in the last chunk of the trace, and put the column in shadow
C28_Witness ==
    /\ probe.done
    /\ <<0, 0>> \in probe.shadowed
    /\ \A dy \in 1 .. SHADOW_TRACE_CHUNKS : <<0, dy, 0>> \in DOMAIN probe.cache
    /\ \A dy \in 1 .. SHADOW_TRACE_CHUNKS - 1 : ~BlockAbove(dy, 0, 0)
    /\ BlockAbove(SHADOW_TRACE_CHUNKS, 0, 0)


----------------------------------------------------------------------------
(* Properties of the choice of the remesh batch                            *)

\* the chunks that carry NeedsRemesh when remesh_modified_chunks runs
Dirty == {c \in loaded_chunks : c \in DOMAIN chunks /\ c \in needs_remesh}

\* squared horizontal distance of chunk c to the chunk of the viewpoint
HorizontalDistance(c) ==
    (c[1] - player_chunk[1]) * (c[1] - player_chunk[1])
        + (c[3] - player_chunk[3]) * (c[3] - player_chunk[3])

\* C29: when more chunks are dirty than the per-tick cap, the chunks processed
\* are chosen top-down (higher chunk y first) and, among chunks of equal
\* height, by horizontal distance to the viewpoint (nearer first)
C29_Step ==
    last_op'.op = "remesh" /\ Cardinality(Dirty) > MAX_CHUNKS_PER_FRAME =>
        \A a \in last_op'.coords, b \in Dirty \ last_op'.coords :
            \/ a[2] > b[2]
            \/ a[2] = b[2] /\ HorizontalDistance(a) <= HorizontalDistance(b)

C29_StepByCoordinate ==
    last_op'.op = "remesh" /\ Cardinality(Dirty) > MAX_CHUNKS_PER_FRAME =>
        /\ last_op'.coords \subseteq Dirty
        /\ Cardinality(last_op'.coords) = MAX_CHUNKS_PER_FRAME
        /\ needs_remesh' = needs_remesh \ last_op'.coords
        /\ \A a \in last_op'.coords, b \in Dirty \ last_op'.coords :
              \/ a[2] > b[2]
              \/ a[2] = b[2] /\ a[3] < b[3]
              \/ a[2] = b[2] /\ a[3] = b[3] /\ a[1] < b[1]

----------------------------------------------------------------------------
(* Properties of spawn_chunks_around_player                                *)

\* the coordinates p + (dx, dy, dz) with |dx|, |dz| <= VIEW_DISTANCE,
\* |dy| <= VIEW_DISTANCE_VERTICAL and dx^2 + dy^2 + dz^2 <= VIEW_DISTANCE^2
RegionAround(p) ==
    { <<p[1] + d[1], p[2] + d[2], p[3] + d[3]>> :
        d \in { e \in (-VIEW_DISTANCE .. VIEW_DISTANCE)
                      \X (-VIEW_DISTANCE_VERTICAL .. VIEW_DISTANCE_VERTICAL)
                      \X (-VIEW_DISTANCE .. VIEW_DISTANCE) :
                  e[1] * e[1] + e[2] * e[2] + e[3] * e[3] <= VIEW_DISTANCE * VIEW_DISTANCE } }

\* the coordinates of the region around the viewpoint that are neither loaded
\* nor loading
Missing == RegionAround(player_chunk) \ (loaded_chunks \cup loading_chunks)

\* C30: after spawn_chunks_around_player has run with the viewpoint in chunk
\* p, every coordinate of the region around p is loaded or loading, exactly
\* one task was dispatched for each coordinate of the region that was neither
\* before, and no coordinate outside the region was marked loading; a run that
\* dispatches nothing is a run with nothing missing
C30_Step ==
    last_op'.op = "spawn" =>
        /\ RegionAround(player_chunk) \subseteq loaded_chunks' \cup loading_chunks'
        /\ loaded_chunks' = loaded_chunks
        /\ loading_chunks' = loading_chunks \cup Missing
        /\ Len(tasks') = Len(tasks) + Cardinality(Missing)
        /\ SubSeq(tasks', 1, Len(tasks)) = tasks
        /\ {tasks'[i].coord : i \in Len(tasks) + 1 .. Len(tasks')} = Missing
        /\ \A i \in Len(tasks) + 1 .. Len(tasks') : tasks'[i].pc = "queued"

----------------------------------------------------------------------------
(* Properties of the flood-fill loops                                      *)

\* what the loop of the probe returns when run in one go: [chunk, quiet]
FloodOfProbe ==
    IF probe.kind = "calculate_skylight_with_neighbors"
    THEN FloodLive(probe.start, NeighborLightDataOf(probe.env, ProbeCoord), 0)
    ELSE FloodCache(probe.start, ProbeCoord, CacheOf(probe.env), 0)

\* C31: every flood-fill loop runs at most 2*CHUNK_SIZE sweep pairs, goes on
\* after a pair that changed a voxel while pairs are left, stops right after
\* the first pair in which no voxel changed, and terminates for every chunk
\* content and neighbour data; what it leaves is what the pass returns
C31_Step ==
    /\ probe.running
    /\ probe.iteration < CHUNK_SIZE * 2
    /\ probe'.iteration = probe.iteration + 1
    /\ probe'.chunk = probe.chunk => ~probe'.running
    /\ probe'.chunk # probe.chunk /\ probe'.iteration < CHUNK_SIZE * 2 => probe'.running

C31_FloodLoopTerminates ==
    /\ [](probe.iteration \in 0 .. CHUNK_SIZE * 2)
    /\ [](~probe.running => probe.chunk = FloodOfProbe.chunk)
    /\ [][C31_Step]_vars
    /\ <>[](~probe.running)

\* a loop has stopped after a pair that raised light and a pair that changed
\* nothing
C31_Witness ==
    /\ ~probe.running
    /\ probe.iteration = 2
    /\ ~probe.any_change
    /\ probe.chunk # probe.start


----------------------------------------------------------------------------
(* Properties of the terrain height                                        *)

\* the integer floor of a sum given in halves of a block
FloorOfSum2(sum2) == sum2 \div 2

\* C32: the terrain height of every column of a generated chunk is the integer
\* floor of the five-octave sum, negative and non-integral sums included (a sum
\* of -0.5 gives height -1)
C32_HeightIsFloor ==
    probe.chunk # NoChunk =>
        \A x \in 0 .. CHUNK_SIZE - 1, z \in 0 .. CHUNK_SIZE - 1 :
            get_terrain_height(WORLD_SEED, probe.coord[1] * CHUNK_SIZE + x,
                               probe.coord[3] * CHUNK_SIZE + z)
              = FloorOfSum2(HeightSum2(WORLD_SEED, probe.coord[1] * CHUNK_SIZE + x,
                                       probe.coord[3] * CHUNK_SIZE + z))


\* the light the loop of the probe reads at (x, y, z), a voxel of the chunk or
\* the voxel of a face neighbour next to it: the chunk's own array inside, the
\* neighbour data outside, 0 where there is no neighbour
LightAsRead(x, y, z) ==
    IF probe.kind = "calculate_skylight_with_neighbors"
    THEN get_light_or_neighbor(probe.chunk, x, y, z, NeighborLightDataOf(probe.env, ProbeCoord))
    ELSE IF InRange(x, y, z) THEN get_light(probe.chunk, x, y, z)
    ELSE get_cached_light(CacheOf(probe.env),
                          <<ProbeCoord[1] + x \div CHUNK_SIZE, ProbeCoord[2] + y \div CHUNK_SIZE,
                            ProbeCoord[3] + z \div CHUNK_SIZE>>,
                          x % CHUNK_SIZE, y % CHUNK_SIZE, z % CHUNK_SIZE)

\* the largest light among the six face neighbours of (x, y, z)
MaxAround(x, y, z) ==
    SetMax({LightAsRead(x - 1, y, z), LightAsRead(x + 1, y, z), LightAsRead(x, y - 1, z),
            LightAsRead(x, y + 1, z), LightAsRead(x, y, z - 1), LightAsRead(x, y, z + 1)})

\* C37: the flood-fill loops never stop at the cap of 2*CHUNK_SIZE pairs while a
\* voxel could still be raised: once a loop has returned, its last pair changed
\* nothing and no air voxel stores less than the maximum over its six face
\* neighbours, as the pass reads them, minus 1
C37_FloodReachesFixpoint ==
    ~probe.running =>
        /\ ~probe.any_change
        /\ \A x \in Axis, y \in Axis, z \in Axis :
              is_air(get_block(probe.chunk, x, y, z)) =>
                  get_light(probe.chunk, x, y, z) >= MaxAround(x, y, z) - 1

\* a loop has returned on a chunk where it raised an air voxel to one less than
\* the light of a neighbour voxel
C37_Witness ==
    /\ ~probe.running
    /\ \E x \in Axis, y \in Axis, z \in Axis :
          /\ is_air(get_block(probe.chunk, x, y, z))
          /\ get_light(probe.chunk, x, y, z) > get_light(probe.start, x, y, z)
          /\ get_light(probe.chunk, x, y, z) = MaxAround(x, y, z) - 1


----------------------------------------------------------------------------
(* The isolated pass against the cross-chunk pass                          *)

\* C39: with no neighbour data the isolated pass and the cross-chunk pass agree:
\* on every chunk content and stored light, calculate_skylight leaves the light
\* array that calculate_skylight_with_cache leaves with an empty snapshot map,
\* and the other way round
C39_Step ==
    probe'.steps = probe.steps + 1 =>
        /\ probe'.op = "calculate_skylight" =>
              LightOf(probe'.chunk)
                = LightOf(calculate_skylight_with_cache(probe.chunk, ProbeCoord,
                                                        CacheOf(EmptyMap)))
        /\ probe'.op = "calculate_skylight_with_cache" /\ probe.env = EmptyMap =>
              LightOf(probe'.chunk) = LightOf(calculate_skylight(probe.chunk))

C39_IsolatedEqualsEmptyCache == [][C39_Step]_vars

\* the cross-chunk pass has run with an empty snapshot map on a chunk where the
\* flood fill lit a shadowed air voxel from an open column
C39_Witness ==
    /\ probe.op = "calculate_skylight_with_cache"
    /\ probe.env = EmptyMap
    /\ \E v \in Voxels :
          /\ is_air(probe.chunk.blocks[v])
          /\ LightOf(probe.chunk)[v] > 0
          /\ LightOf(probe.chunk)[v] < MAX_LIGHT_LEVEL


----------------------------------------------------------------------------
(* The snapshot the batch meshes against                                   *)

\* the snapshot of the batch's chunks and their neighbours as they are stored
\* after the step
SnapshotAfter(batch) == BuildCache(batch, loaded_chunks', chunks')

\* C36: when remesh_modified_chunks builds the mesh of a chunk, every neighbour
\* light value the builder reads equals the light stored in that neighbour at
\* that moment, also when the neighbour was re-lit in the same batch: the mesh
\* of every batch chunk is the mesh built against the chunks as the last light
\* pass left them
C36_Step ==
    last_op'.op = "remesh" /\ needs_remesh' # needs_remesh =>
        \A c \in last_op'.coords :
            meshes'[c] = create_chunk_mesh_with_cache(chunks'[c], c,
                                                      SnapshotAfter(last_op'.coords),
                                                      sky_light_level)

C36_MeshReadsStoredLight == [][C36_Step]_vars


----------------------------------------------------------------------------
(* Stored light after a batch                                               *)

\* the light stored in chs at position (x, y, z) counted from the origin of
\* chunk c, in c or in the loaded chunk next to it; 0 where no chunk is loaded
StoredLight(chs, c, x, y, z) ==
    IF InRange(x, y, z) THEN get_light(chs[c], x, y, z)
    ELSE LET nc == <<c[1] + x \div CHUNK_SIZE, c[2] + y \div CHUNK_SIZE,
                     c[3] + z \div CHUNK_SIZE>>
         IN  IF nc \in DOMAIN chs
             THEN get_light(chs[nc], x % CHUNK_SIZE, y % CHUNK_SIZE, z % CHUNK_SIZE)
             ELSE 0

\* the largest light stored in the six face-adjacent voxels
MaxStoredAround(chs, c, x, y, z) ==
    SetMax({StoredLight(chs, c, x - 1, y, z), StoredLight(chs, c, x + 1, y, z),
            StoredLight(chs, c, x, y - 1, z), StoredLight(chs, c, x, y + 1, z),
            StoredLight(chs, c, x, y, z - 1), StoredLight(chs, c, x, y, z + 1)})

\* no non-air block lies above voxel (x, y, z) of chunk c, in c and in the
\* loaded chunks above it
OpenAbove(chs, c, x, y, z) ==
    /\ \A yy \in Axis : yy > y => is_air(get_block(chs[c], x, yy, z))
    /\ \A dy \in 1 .. SHADOW_TRACE_CHUNKS :
          <<c[1], c[2] + dy, c[3]>> \in DOMAIN chs =>
              \A yy \in Axis : is_air(get_block(chs[<<c[1], c[2] + dy, c[3]>>], x, yy, z))

\* every air voxel of chunk c is dark, or fully lit under an open column, or
\* lit at most one less than its brightest face-adjacent voxel
LightHasSource(chs, c) ==
    \A x \in Axis, y \in Axis, z \in Axis :
        is_air(get_block(chs[c], x, y, z)) =>
            \/ get_light(chs[c], x, y, z) = 0
            \/ /\ get_light(chs[c], x, y, z) = MAX_LIGHT_LEVEL
               /\ OpenAbove(chs, c, x, y, z)
            \/ get_light(chs[c], x, y, z) <= MaxStoredAround(chs, c, x, y, z) - 1

\* C33: after a remesh batch, in every chunk the batch processed, each air
\* voxel's stored light is either full in a column with no non-air block above
\* it, or at most one less than the largest light stored in its six
\* face-adjacent voxels, across boundaries into the loaded neighbours: no light
\* remains that has no source, also when adjacent chunks are re-lit in the same
\* batch or a chunk was re-lit on its own by an edit just before
C33_LightHasSource ==
    probe.pass = LIGHT_PROPAGATION_PASSES =>
        \A c \in Range(probe.order) : LightHasSource(probe.chs, c)


----------------------------------------------------------------------------
(* Stored light across chunk boundaries at rest                             *)

\* nothing is marked and no generation task is outstanding
AtRest == needs_remesh = {} /\ tasks = <<>> /\ loading_chunks = {}

\* the voxels of chunk c on its face towards direction d, each with the voxel
\* of the neighbour chunk it touches: <<own voxel, neighbour's voxel>>
SeamPairs(d) ==
    { <<v, w>> \in Voxels \X Voxels :
        /\ ~InRange(XOf(v) + d[1], YOf(v) + d[2], ZOf(v) + d[3])
        /\ XOf(w) = (XOf(v) + d[1]) % CHUNK_SIZE
        /\ YOf(w) = (YOf(v) + d[2]) % CHUNK_SIZE
        /\ ZOf(w) = (ZOf(v) + d[3]) % CHUNK_SIZE }

\* C34: when no chunk is marked and no generation task is outstanding, every
\* two face-adjacent air voxels that lie in two different loaded chunks store
\* light values that differ by at most 1
C34_SeamsSettled ==
    AtRest =>
        \A c \in loaded_chunks, k \in 1 .. 6 :
            LET n == <<c[1] + FaceNormals[k][1], c[2] + FaceNormals[k][2],
                       c[3] + FaceNormals[k][3]>>
            IN  n \in loaded_chunks =>
                    \A p \in SeamPairs(FaceNormals[k]) :
                        is_air(chunks[c].blocks[p[1]]) /\ is_air(chunks[n].blocks[p[2]]) =>
                            /\ LightOf(chunks[c])[p[1]] - LightOf(chunks[n])[p[2]] <= 1
                            /\ LightOf(chunks[n])[p[2]] - LightOf(chunks[c])[p[1]] <= 1


----------------------------------------------------------------------------
(* Full light under a block                                                *)

\* a non-air block lies above voxel (x, y, z) of loaded chunk c in its world
\* column: in c itself, or in one of the loaded chunks above c that follow each
\* other without a gap, SHADOW_TRACE_CHUNKS of them at most
BlockOverhead(c, x, y, z) ==
    \/ \E yy \in Axis : yy > y /\ ~is_air(get_block(chunks[c], x, yy, z))
    \/ \E dy \in 1 .. SHADOW_TRACE_CHUNKS :
          /\ \A k \in 1 .. dy : <<c[1], c[2] + k, c[3]>> \in loaded_chunks
          /\ \E yy \in Axis :
                ~is_air(get_block(chunks[<<c[1], c[2] + dy, c[3]>>], x, yy, z))

\* C35: when no chunk is marked and no generation task is outstanding, no air
\* voxel of a loaded chunk stores full light while a non-air block lies above it
\* in its world column, in its own chunk or in a contiguous run of loaded chunks
\* above it; also after a block was placed at any height of a chunk above and
\* after a chunk two or more levels above was integrated
C35_NoFullLightUnderBlock ==
    AtRest =>
        \A c \in loaded_chunks, x \in Axis, y \in Axis, z \in Axis :
            is_air(get_block(chunks[c], x, y, z))
              /\ get_light(chunks[c], x, y, z) = MAX_LIGHT_LEVEL
            => ~BlockOverhead(c, x, y, z)


----------------------------------------------------------------------------
(* Dirty marks                                                             *)

\* C38: a dirty mark is never lost: a marked chunk stays marked until a batch
\* of remesh_modified_chunks has taken it, re-lit it and rebuilt its mesh with
\* the current sky level; and every marked chunk is processed after finitely
\* many batches, although a batch takes at most MAX_CHUNKS_PER_FRAME chunks
C38_Step ==
    \A c \in needs_remesh \ needs_remesh' :
        /\ last_op'.op = "remesh"
        /\ c \in last_op'.coords
        /\ Cardinality(last_op'.coords) <= MAX_CHUNKS_PER_FRAME
        /\ \E r \in {RemeshResult(loaded_chunks, chunks, needs_remesh, sky_light_level)} :
              /\ c \in r.batch
              /\ chunks'[c] = r.chunks[c]
              /\ meshes'[c] = r.meshes[c]
        /\ chunk_sky_light'[c] = sky_light_level

C38_MarkNeverLost ==
    /\ [][C38_Step]_vars
    /\ \A c \in DOMAIN SeamColumn : (c \in needs_remesh) ~> (c \notin needs_remesh)

\* a batch has left a marked chunk behind because more chunks were marked than
\* one batch takes
C38_Witness ==
    /\ last_op.op = "remesh"
    /\ Cardinality(last_op.coords) = MAX_CHUNKS_PER_FRAME
    /\ needs_remesh \cap loaded_chunks # {}

=============================================================================
